---- MODULE Spec2Model ----
(***************************************************************************)
(* Sapling in-band note encryption (zcash_primitives/src/note_encryption.rs) *)
(* as a state machine: a sender builds a SaplingNoteEncryption context and  *)
(* publishes (cv, cmu, epk, encCiphertext, outCiphertext); the published    *)
(* data or the arguments of the decryption calls may then be altered once;  *)
(* finally the four decryption functions are called in the order in which   *)
(* random_enc_ciphertext calls them.                                        *)
(*                                                                         *)
(* Modelling conventions.                                                  *)
(*  - Jubjub is the cyclic group Z_(8*s) written additively, a point being  *)
(*    its residue; the prime-order subgroup is the multiples of 8.  The     *)
(*    scalar field Fs is Z_s for the small prime s = FsModulus.             *)
(*  - Byte strings that encode numbers are the numbers they encode; fixed   *)
(*    width fields of a plaintext are the fields of a record.               *)
(*  - BLAKE2b (kdf_sapling, prf_ock), the note commitment and Poly1305 are  *)
(*    collision free: their outputs are the records of their inputs.        *)
(*  - ChaCha20 is XOR with a keystream that is a function of the key, the   *)
(*    block counter and the byte offset.                                    *)
(*  - A panic (assert_eq!, unwrap, expect) is the outcome Abort.            *)
(*                                                                         *)
(* Further specifications over the same variables: ContextSpec (a context   *)
(* built from any note and any address), PairingSpec (the BLS12 pairing on  *)
(* a scaled-down curve), LoopSpec (the two loops over BLS_X >> 1 at the     *)
(* BLS_X of the source), MemoSpec (Memo, with its 512 bytes) and ProverSpec *)
(* (LocalTxProver::with_default_location over the file system it sees).     *)
(***************************************************************************)
EXTENDS Integers, Sequences, FiniteSets, TLC

(***************************************************************************)
(* Bounds of the model                                                     *)
(***************************************************************************)
MaxHeight == 3

MaxValue == 1

MaxOvk == 0

(***************************************************************************)
(* Option values and panics                                                *)
(***************************************************************************)
None == [some |-> FALSE, abort |-> FALSE]

Abort == [some |-> FALSE, abort |-> TRUE]

Some(x) == [some |-> TRUE, abort |-> FALSE, val |-> x]

\* The value and the sequence of checks a call evaluated, in order.
Ret(res, trace) == [res |-> res, trace |-> trace]

(***************************************************************************)
(* Sizes                                                                   *)
(***************************************************************************)
COMPACT_NOTE_SIZE == 1 + 11 + 8 + 32

NOTE_PLAINTEXT_SIZE == COMPACT_NOTE_SIZE + 512

OUT_PLAINTEXT_SIZE == 32 + 32

ENC_CIPHERTEXT_SIZE == NOTE_PLAINTEXT_SIZE + 16

OUT_CIPHERTEXT_SIZE == OUT_PLAINTEXT_SIZE + 16

(***************************************************************************)
(* Consensus parameters (consensus.rs), scaled down                        *)
(***************************************************************************)
CanopyActivationHeight == 1

ZIP212_GRACE_PERIOD == 2

activation_height_Canopy == Some(CanopyActivationHeight)

is_nu_active_Canopy(height) ==
    activation_height_Canopy.some /\ height >= activation_height_Canopy.val

Heights == 0..MaxHeight

(***************************************************************************)
(* Jubjub and its scalar field (jubjub/, primitives.rs), scaled down       *)
(***************************************************************************)
FsModulus == 3

Cofactor == 8

GroupOrder == Cofactor * FsModulus

Fs == 0..(FsModulus - 1)

Points == 0..(GroupOrder - 1)

PointZero == 0

PointMul(p, k) == (p * k) % GroupOrder

mul_by_cofactor(p) == PointMul(p, Cofactor)

PrimeOrderPoints == {p \in Points : PointMul(p, FsModulus) = PointZero}

\* Fs::to_repr / Fs::from_repr: 32 little-endian bytes; from_repr rejects
\* encodings of numbers >= the modulus.
Fs_to_repr(x) == x

Fs_from_repr(b) == IF b < FsModulus THEN Some(b) ELSE None

\* edwards::Point::write / read / as_prime_order.
Point_write(p) == p

Point_read(b) == IF b < GroupOrder THEN Some(b) ELSE None

as_prime_order(p) == IF p \in PrimeOrderPoints THEN Some(p) ELSE None

g_d(d) ==
    CASE d = 0 -> Some(8)
      [] d = 1 -> Some(16)
      [] OTHER -> None

\* The two variants of Rseed.
BeforeZip212(rcm) == [zip212 |-> FALSE, r |-> rcm]

AfterZip212(rseed) == [zip212 |-> TRUE, r |-> rseed]

\* to_scalar(prf_expand(rseed, [t])).  The esk (t = 5) is a scalar used in
\* group arithmetic; the rcm (t = 4) enters the commitment only.
prf_expand_esk(rseed) == (2 * rseed + 1) % FsModulus

\* Note::rcm
Note_rcm(note) ==
    IF note.rseed.zip212
    THEN [prf |-> 4, of |-> note.rseed.r]
    ELSE [prf |-> 0, of |-> note.rseed.r]

\* Note::derive_esk
derive_esk(note) ==
    IF note.rseed.zip212 THEN Some(prf_expand_esk(note.rseed.r)) ELSE None

\* Note::generate_or_derive_esk(rng); rng is the scalar the generator yields.
generate_or_derive_esk(note, rng) ==
    IF derive_esk(note).some THEN derive_esk(note).val ELSE rng

\* Note::cm: the commitment to (value, g_d, pk_d) under rcm.
Note_cm(note) ==
    [v |-> note.value, g_d |-> note.g_d, pk_d |-> note.pk_d, rcm |-> Note_rcm(note)]

\* PaymentAddress::from_parts: None when pk_d is the identity.
from_parts(diversifier, pk_d) ==
    IF pk_d = PointZero
    THEN None
    ELSE Some([diversifier |-> diversifier, pk_d |-> pk_d])

from_parts_unchecked(diversifier, pk_d) == [diversifier |-> diversifier, pk_d |-> pk_d]

\* PaymentAddress::create_note: None when the diversifier has no g_d.
create_note(to, value, rseed) ==
    IF g_d(to.diversifier).some
    THEN Some([value |-> value, g_d |-> g_d(to.diversifier).val,
               pk_d |-> to.pk_d, rseed |-> rseed])
    ELSE None

(***************************************************************************)
(* Hashes, ChaCha20 and ChaCha20-Poly1305                                  *)
(***************************************************************************)
RECURSIVE XOR(_, _)
XOR(a, b) ==
    IF a = 0 THEN b
    ELSE IF b = 0 THEN a
    ELSE 2 * XOR(a \div 2, b \div 2) + (((a % 2) + (b % 2)) % 2)

\* Byte offset and modelled width (in bits) of the fields of the note
\* plaintext and of the outgoing plaintext.
EncOffset == [lead |-> 0, d |-> 1, v |-> 12, r |-> 20, memo |-> COMPACT_NOTE_SIZE]

EncBits == [lead |-> 8, d |-> 2, v |-> 2, r |-> 2, memo |-> 2]

OutOffset == [pk_d |-> 0, esk |-> 32]

OutBits == [pk_d |-> 5, esk |-> 2]

\* Number of bytes each field takes in the plaintext arrays.
EncWidth == [lead |-> 1, d |-> 12 - 1, v |-> 20 - 12, r |-> COMPACT_NOTE_SIZE - 20,
             memo |-> NOTE_PLAINTEXT_SIZE - COMPACT_NOTE_SIZE]

OutWidth == [pk_d |-> 32 - 0, esk |-> OUT_PLAINTEXT_SIZE - 32]

EncLayout == [off |-> EncOffset, bits |-> EncBits]

OutLayout == [off |-> OutOffset, bits |-> OutBits]

\* sapling_ka_agree: multiply by the cofactor, then by the scalar.
sapling_ka_agree(esk, pk_d) == PointMul(mul_by_cofactor(pk_d), esk)

\* kdf_sapling: BLAKE2b-256 of dhsecret || epk.
kdf_sapling(dhsecret, epk) ==
    [h |-> "kdf", in |-> <<Point_write(dhsecret), Point_write(epk)>>]

\* An outgoing cipher key that does not depend on ovk.
prf_ock_without_ovk(ovk, cv, cmu, epk) ==
    [h |-> "ock", in |-> <<0, Point_write(cv), cmu, Point_write(epk)>>]

\* prf_ock: BLAKE2b-256 of ovk || cv || cmu || epk.
prf_ock(ovk, cv, cmu, epk) ==
    [h |-> "ock", in |-> <<ovk, Point_write(cv), cmu, Point_write(epk)>>]

\* The 32 zero bytes recovery_with_invalid_ock passes as ock.
ZeroKey == [h |-> "zero", in |-> <<>>]

\* The number a key seeds the ChaCha20 block function with.
KeySeed(key) ==
    CASE key.h = "kdf" -> (key.in[1] \div Cofactor) + FsModulus * (key.in[2] \div Cofactor) + 1
      [] key.h = "ock" -> key.in[1] + 2 * key.in[2] + key.in[3].v + (key.in[4] \div Cofactor) + 2
      [] OTHER -> 0

\* The 12 zero bytes passed as nonce, and the empty associated data.
ZeroNonce == 0

EmptyAd == <<>>

\* The keystream of ChaCha20 under key and nonce, from block `counter`, for
\* the field at byte offset off.
Keystream(key, nonce, counter, off, bits) ==
    (KeySeed(key) * (2 * off + 1) + 7 * counter + 13 * nonce + off) % (2 ^ bits)

\* ChaCha20Ietf::xor(key, nonce, counter, data)
ChaCha20Ietf_xor(key, nonce, counter, data, layout) ==
    [f \in DOMAIN data |->
        XOR(data[f], Keystream(key, nonce, counter, layout.off[f], layout.bits[f]))]

\* The Poly1305 tag of associated data and ciphertext body under the one-time
\* key of `key` and nonce; last is the difference of the tag's last byte from
\* the computed one.
Poly1305(key, nonce, ad, body) ==
    [k |-> key, nonce |-> nonce, ad |-> ad, body |-> body, last |-> 0]

\* ChachaPolyIetf::seal_to(output, input, ad, key, nonce): the body is
\* encrypted from block 1 (block 0 keys Poly1305), the tag follows it.
seal_to(input, len, ad, key, nonce, layout) ==
    LET body == ChaCha20Ietf_xor(key, nonce, 1, input, layout)
    IN  [len |-> len + 16, body |-> body, tag |-> Poly1305(key, nonce, ad, body)]

\* ChachaPolyIetf::open_to(output, ct, ad, key, nonce): Err on a tag
\* mismatch, otherwise the plaintext and its length.
open_to(ct, ad, key, nonce, layout) ==
    IF ct.tag = Poly1305(key, nonce, ad, ct.body)
    THEN Some([n |-> ct.len - 16, pt |-> ChaCha20Ietf_xor(key, nonce, 1, ct.body, layout)])
    ELSE None

(***************************************************************************)
(* SaplingNoteEncryption                                                   *)
(***************************************************************************)
SaplingNoteEncryption_new(ovk, note, to, memo, rng) ==
    LET esk == generate_or_derive_esk(note, rng)
        epk == PointMul(note.g_d, esk)
    IN  [epk |-> epk, esk |-> esk, note |-> note, to |-> to, memo |-> memo, ovk |-> ovk]

\* The note plaintext with the lead byte of the pre-Canopy encoding only.
NotePlaintext_v1(self) ==
    [lead |-> 1,
     d    |-> self.to.diversifier,
     v    |-> self.note.value,
     r    |-> IF self.note.rseed.zip212
              THEN self.note.rseed.r
              ELSE Fs_to_repr(self.note.rseed.r),
     memo |-> self.memo]

\* The note plaintext with the two lead bytes exchanged.
NotePlaintext_lead_swapped(self) ==
    [lead |-> IF self.note.rseed.zip212 THEN 1 ELSE 2,
     d    |-> self.to.diversifier,
     v    |-> self.note.value,
     r    |-> IF self.note.rseed.zip212
              THEN self.note.rseed.r
              ELSE Fs_to_repr(self.note.rseed.r),
     memo |-> self.memo]

NotePlaintext(self) ==
    [lead |-> IF self.note.rseed.zip212 THEN 2 ELSE 1,
     d    |-> self.to.diversifier,
     v    |-> self.note.value,
     r    |-> IF self.note.rseed.zip212
              THEN self.note.rseed.r
              ELSE Fs_to_repr(self.note.rseed.r),
     memo |-> self.memo]

\* encrypt_note_plaintext whose body is encrypted from block 0 of the
\* keystream, the block that keys Poly1305.
encrypt_note_plaintext_block0(self) ==
    LET shared_secret == sapling_ka_agree(self.esk, self.to.pk_d)
        key == kdf_sapling(shared_secret, self.epk)
        body == ChaCha20Ietf_xor(key, ZeroNonce, 0, NotePlaintext(self), EncLayout)
    IN  [len |-> NOTE_PLAINTEXT_SIZE + 16, body |-> body,
         tag |-> Poly1305(key, ZeroNonce, EmptyAd, body)]

encrypt_note_plaintext(self) ==
    LET shared_secret == sapling_ka_agree(self.esk, self.to.pk_d)
        key == kdf_sapling(shared_secret, self.epk)
    IN  seal_to(NotePlaintext(self), NOTE_PLAINTEXT_SIZE, EmptyAd, key, ZeroNonce, EncLayout)

\* The outgoing plaintext with the esk bytes left zero.
OutPlaintext_esk_unwritten(self) ==
    [pk_d |-> Point_write(self.note.pk_d), esk |-> 0]

OutPlaintext(self) ==
    [pk_d |-> Point_write(self.note.pk_d), esk |-> Fs_to_repr(self.esk)]

encrypt_outgoing_plaintext(self, cv, cmu) ==
    LET key == prf_ock(self.ovk, cv, cmu, self.epk)
    IN  seal_to(OutPlaintext(self), OUT_PLAINTEXT_SIZE, EmptyAd, key, ZeroNonce, OutLayout)

(***************************************************************************)
(* Decryption                                                              *)
(***************************************************************************)
\* plaintext_version_is_valid that accepts both lead bytes at every height.
plaintext_version_is_valid_any_height(height, leadbyte) ==
    leadbyte = 1 \/ leadbyte = 2

\* plaintext_version_is_valid with the grace period ending one block late.
plaintext_version_is_valid_late(height, leadbyte) ==
    IF is_nu_active_Canopy(height)
    THEN LET grace_period_end_height == activation_height_Canopy.val + ZIP212_GRACE_PERIOD
         IN  IF height <= grace_period_end_height /\ leadbyte # 1 /\ leadbyte # 2
             THEN FALSE
             ELSE IF height > grace_period_end_height /\ leadbyte # 2
             THEN FALSE
             ELSE TRUE
    ELSE leadbyte = 1

plaintext_version_is_valid(height, leadbyte) ==
    IF is_nu_active_Canopy(height)
    THEN LET grace_period_end_height == activation_height_Canopy.val + ZIP212_GRACE_PERIOD
         IN  IF height < grace_period_end_height /\ leadbyte # 1 /\ leadbyte # 2
             THEN FALSE
             ELSE IF height >= grace_period_end_height /\ leadbyte # 2
             THEN FALSE
             ELSE TRUE
    ELSE leadbyte = 1

\* Rseed as lines 364-369 and 552-557 build it, once the rcm decoded.
ParseRseed(plaintext) ==
    IF plaintext.lead = 1
    THEN BeforeZip212(Fs_from_repr(plaintext.r).val)
    ELSE AfterZip212(plaintext.r)

\* The two checks in the other order: the derived esk, then the commitment.
check_cmu_and_esk_esk_first(note, to, epk, cmu, trace) ==
    LET t_derived_esk == IF derive_esk(note).some THEN Append(trace, "derived_esk") ELSE trace
        t_cmu == Append(t_derived_esk, "cmu")
    IN  IF derive_esk(note).some /\ PointMul(note.g_d, derive_esk(note).val) # epk
        THEN Ret(None, t_derived_esk)
        ELSE IF Note_cm(note) # cmu
        THEN Ret(None, t_cmu)
        ELSE Ret(Some([note |-> note, to |-> to]), t_cmu)

\* The commitment is recomputed and not compared with cmu.
check_cmu_and_esk_cmu_unchecked(note, to, epk, cmu, trace) ==
    LET t_cmu == Append(trace, "cmu")
        t_derived_esk == Append(t_cmu, "derived_esk")
    IN  IF derive_esk(note).some
        THEN IF PointMul(note.g_d, derive_esk(note).val) # epk
             THEN Ret(None, t_derived_esk)
             ELSE Ret(Some([note |-> note, to |-> to]), t_derived_esk)
        ELSE Ret(Some([note |-> note, to |-> to]), t_cmu)

\* The derived esk is not compared with epk.
check_cmu_and_esk_esk_unchecked(note, to, epk, cmu, trace) ==
    LET t_cmu == Append(trace, "cmu")
        t_derived_esk == Append(t_cmu, "derived_esk")
    IN  IF Note_cm(note) # cmu
        THEN Ret(None, t_cmu)
        ELSE IF derive_esk(note).some
        THEN Ret(Some([note |-> note, to |-> to]), t_derived_esk)
        ELSE Ret(Some([note |-> note, to |-> to]), t_cmu)

\* The last two checks of parse_note_plaintext_without_memo, on the note built
\* from the plaintext: the commitment, then the esk derived from a ZIP 212 rseed.
check_cmu_and_esk(note, to, epk, cmu, trace) ==
    LET t_cmu == Append(trace, "cmu")
        t_derived_esk == Append(t_cmu, "derived_esk")
    IN  IF Note_cm(note) # cmu
        THEN Ret(None, t_cmu)
        ELSE IF derive_esk(note).some
        THEN IF PointMul(note.g_d, derive_esk(note).val) # epk
             THEN Ret(None, t_derived_esk)
             ELSE Ret(Some([note |-> note, to |-> to]), t_derived_esk)
        ELSE Ret(Some([note |-> note, to |-> to]), t_cmu)

\* The parse with g_d() unwrapped: a panic for a diversifier without g_d.
parse_note_plaintext_without_memo_g_d_unwrap(height, ivk, epk, cmu, plaintext) ==
    LET t_version == <<"version">>
        t_rcm == IF plaintext.lead = 1 THEN Append(t_version, "rcm") ELSE t_version
        t_g_d == Append(t_rcm, "g_d")
        t_from_parts == Append(t_g_d, "from_parts")
        t_create_note == Append(t_from_parts, "create_note")
    IN
    IF ~plaintext_version_is_valid(height, plaintext.lead)
    THEN Ret(None, t_version)
    ELSE IF plaintext.lead = 1 /\ ~Fs_from_repr(plaintext.r).some
    THEN Ret(None, t_rcm)
    ELSE IF ~g_d(plaintext.d).some
    THEN Ret(Abort, t_g_d)
    ELSE
    LET rseed == ParseRseed(plaintext)
        diversifier == plaintext.d
        pk_d == PointMul(g_d(diversifier).val, Fs_to_repr(ivk))
        to == from_parts(diversifier, pk_d)
    IN  IF ~to.some
        THEN Ret(None, t_from_parts)
        ELSE
        LET n == create_note(to.val, plaintext.v, rseed)
        IN  IF ~n.some
            THEN Ret(Abort, t_create_note)
            ELSE
            check_cmu_and_esk(n.val, to.val, epk, cmu, t_create_note)

parse_note_plaintext_without_memo(height, ivk, epk, cmu, plaintext) ==
    LET t_version == <<"version">>
        t_rcm == IF plaintext.lead = 1 THEN Append(t_version, "rcm") ELSE t_version
        t_g_d == Append(t_rcm, "g_d")
        t_from_parts == Append(t_g_d, "from_parts")
        t_create_note == Append(t_from_parts, "create_note")
    IN
    IF ~plaintext_version_is_valid(height, plaintext.lead)
    THEN Ret(None, t_version)
    ELSE IF plaintext.lead = 1 /\ ~Fs_from_repr(plaintext.r).some
    THEN Ret(None, t_rcm)
    ELSE IF ~g_d(plaintext.d).some
    THEN Ret(None, t_g_d)
    ELSE
    LET rseed == ParseRseed(plaintext)
        diversifier == plaintext.d
        pk_d == PointMul(g_d(diversifier).val, Fs_to_repr(ivk))
        to == from_parts(diversifier, pk_d)
    IN  IF ~to.some
        THEN Ret(None, t_from_parts)
        ELSE
        LET n == create_note(to.val, plaintext.v, rseed)
        IN  IF ~n.some
            THEN Ret(Abort, t_create_note)
            ELSE
            check_cmu_and_esk(n.val, to.val, epk, cmu, t_create_note)

\* The first COMPACT_NOTE_SIZE bytes of a plaintext or ciphertext body.
CompactFields == {"lead", "d", "v", "r"}

CompactPart(body) == [f \in CompactFields |-> body[f]]

\* Trial decryption that unwraps the result of open_to instead of returning
\* None on a tag mismatch.
try_sapling_note_decryption_unwrap(height, ivk, epk, cmu, enc_ciphertext) ==
    IF enc_ciphertext.len # ENC_CIPHERTEXT_SIZE
    THEN Ret(Abort, <<"enc_len">>)
    ELSE
    LET shared_secret == sapling_ka_agree(ivk, epk)
        key == kdf_sapling(shared_secret, epk)
        opened == open_to(enc_ciphertext, EmptyAd, key, ZeroNonce, EncLayout)
    IN  IF ~opened.some \/ opened.val.n # NOTE_PLAINTEXT_SIZE
        THEN Ret(Abort, <<"enc_len", "enc_tag">>)
        ELSE
        LET plaintext == opened.val.pt
            parsed == parse_note_plaintext_without_memo(height, ivk, epk, cmu, plaintext)
            trace == <<"enc_len", "enc_tag">> \o parsed.trace
        IN  IF ~parsed.res.some
            THEN Ret(parsed.res, trace)
            ELSE Ret(Some([note |-> parsed.res.val.note, to |-> parsed.res.val.to,
                           memo |-> plaintext.memo]), trace)

\* Trial decryption that decrypts the body and does not verify the tag.
try_sapling_note_decryption_unauthenticated(height, ivk, epk, cmu, enc_ciphertext) ==
    IF enc_ciphertext.len # ENC_CIPHERTEXT_SIZE
    THEN Ret(Abort, <<"enc_len">>)
    ELSE
    LET shared_secret == sapling_ka_agree(ivk, epk)
        key == kdf_sapling(shared_secret, epk)
        plaintext == ChaCha20Ietf_xor(key, ZeroNonce, 1, enc_ciphertext.body, EncLayout)
        parsed == parse_note_plaintext_without_memo(height, ivk, epk, cmu, plaintext)
        trace == <<"enc_len", "enc_tag">> \o parsed.trace
    IN  IF ~parsed.res.some
        THEN Ret(parsed.res, trace)
        ELSE Ret(Some([note |-> parsed.res.val.note, to |-> parsed.res.val.to,
                       memo |-> plaintext.memo]), trace)

try_sapling_note_decryption(height, ivk, epk, cmu, enc_ciphertext) ==
    IF enc_ciphertext.len # ENC_CIPHERTEXT_SIZE
    THEN Ret(Abort, <<"enc_len">>)
    ELSE
    LET shared_secret == sapling_ka_agree(ivk, epk)
        key == kdf_sapling(shared_secret, epk)
        opened == open_to(enc_ciphertext, EmptyAd, key, ZeroNonce, EncLayout)
    IN  IF ~opened.some
        THEN Ret(None, <<"enc_len", "enc_tag">>)
        ELSE IF opened.val.n # NOTE_PLAINTEXT_SIZE
        THEN Ret(Abort, <<"enc_len", "enc_tag">>)
        ELSE
        LET plaintext == opened.val.pt
            parsed == parse_note_plaintext_without_memo(height, ivk, epk, cmu, plaintext)
            trace == <<"enc_len", "enc_tag">> \o parsed.trace
        IN  IF ~parsed.res.some
            THEN Ret(parsed.res, trace)
            ELSE Ret(Some([note |-> parsed.res.val.note, to |-> parsed.res.val.to,
                           memo |-> plaintext.memo]), trace)

\* Compact decryption with the keystream taken from block 0, which keys Poly1305.
try_sapling_compact_note_decryption_block0(height, ivk, epk, cmu, enc_ciphertext) ==
    IF enc_ciphertext.len # COMPACT_NOTE_SIZE
    THEN Ret(Abort, <<"enc_len">>)
    ELSE
    LET shared_secret == sapling_ka_agree(ivk, epk)
        key == kdf_sapling(shared_secret, epk)
        plaintext == ChaCha20Ietf_xor(key, ZeroNonce, 0, enc_ciphertext.body, EncLayout)
        parsed == parse_note_plaintext_without_memo(height, ivk, epk, cmu, plaintext)
    IN  Ret(parsed.res, <<"enc_len">> \o parsed.trace)

\* Compact decryption that returns None for an input of another length.
try_sapling_compact_note_decryption_lenient(height, ivk, epk, cmu, enc_ciphertext) ==
    IF enc_ciphertext.len # COMPACT_NOTE_SIZE
    THEN Ret(None, <<"enc_len">>)
    ELSE
    LET shared_secret == sapling_ka_agree(ivk, epk)
        key == kdf_sapling(shared_secret, epk)
        plaintext == ChaCha20Ietf_xor(key, ZeroNonce, 1, enc_ciphertext.body, EncLayout)
        parsed == parse_note_plaintext_without_memo(height, ivk, epk, cmu, plaintext)
    IN  Ret(parsed.res, <<"enc_len">> \o parsed.trace)

try_sapling_compact_note_decryption(height, ivk, epk, cmu, enc_ciphertext) ==
    IF enc_ciphertext.len # COMPACT_NOTE_SIZE
    THEN Ret(Abort, <<"enc_len">>)
    ELSE
    LET shared_secret == sapling_ka_agree(ivk, epk)
        key == kdf_sapling(shared_secret, epk)
        plaintext == ChaCha20Ietf_xor(key, ZeroNonce, 1, enc_ciphertext.body, EncLayout)
        parsed == parse_note_plaintext_without_memo(height, ivk, epk, cmu, plaintext)
    IN  Ret(parsed.res, <<"enc_len">> \o parsed.trace)

\* Output recovery that does not compare the esk derived from a ZIP 212 note
\* with the esk of the outgoing plaintext.
try_sapling_output_recovery_with_ock_esk_unchecked(height, ock, cmu, epk, enc_ciphertext, out_ciphertext) ==
    IF enc_ciphertext.len # ENC_CIPHERTEXT_SIZE
    THEN Ret(Abort, <<"enc_len">>)
    ELSE IF out_ciphertext.len # OUT_CIPHERTEXT_SIZE
    THEN Ret(Abort, <<"enc_len", "out_len">>)
    ELSE
    LET t_out_tag == <<"enc_len", "out_len", "out_tag">>
        t_pk_d == Append(t_out_tag, "pk_d")
        t_esk == Append(t_pk_d, "esk")
        t_enc_tag == Append(t_esk, "enc_tag")
        op == open_to(out_ciphertext, EmptyAd, ock, ZeroNonce, OutLayout)
    IN
    IF ~op.some
    THEN Ret(None, t_out_tag)
    ELSE IF op.val.n # OUT_PLAINTEXT_SIZE
    THEN Ret(Abort, t_out_tag)
    ELSE IF ~Point_read(op.val.pt.pk_d).some
    THEN Ret(None, t_pk_d)
    ELSE IF ~as_prime_order(Point_read(op.val.pt.pk_d).val).some
    THEN Ret(None, t_pk_d)
    ELSE IF ~Fs_from_repr(op.val.pt.esk).some
    THEN Ret(None, t_esk)
    ELSE
    LET pk_d == as_prime_order(Point_read(op.val.pt.pk_d).val).val
        esk == Fs_from_repr(op.val.pt.esk).val
        shared_secret == sapling_ka_agree(esk, pk_d)
        key == kdf_sapling(shared_secret, epk)
        opened == open_to(enc_ciphertext, EmptyAd, key, ZeroNonce, EncLayout)
    IN
    IF ~opened.some
    THEN Ret(None, t_enc_tag)
    ELSE IF opened.val.n # NOTE_PLAINTEXT_SIZE
    THEN Ret(Abort, t_enc_tag)
    ELSE
    LET plaintext == opened.val.pt
        t_version == Append(t_enc_tag, "version")
        t_rcm == IF plaintext.lead = 1 THEN Append(t_version, "rcm") ELSE t_version
        t_g_d == Append(t_rcm, "g_d")
        t_epk == Append(t_g_d, "epk")
        t_from_parts == Append(t_epk, "from_parts")
        t_create_note == Append(t_from_parts, "create_note")
        t_cmu == Append(t_create_note, "cmu")
        t_derived_esk == Append(t_cmu, "derived_esk")
    IN
    IF ~plaintext_version_is_valid(height, plaintext.lead)
    THEN Ret(None, t_version)
    ELSE IF plaintext.lead = 1 /\ ~Fs_from_repr(plaintext.r).some
    THEN Ret(None, t_rcm)
    ELSE IF ~g_d(plaintext.d).some
    THEN Ret(None, t_g_d)
    ELSE IF PointMul(g_d(plaintext.d).val, Fs_to_repr(esk)) # epk
    THEN Ret(None, t_epk)
    ELSE
    LET rseed == ParseRseed(plaintext)
        diversifier == plaintext.d
        to == from_parts(diversifier, pk_d)
    IN  IF ~to.some
        THEN Ret(None, t_from_parts)
        ELSE
        LET n == create_note(to.val, plaintext.v, rseed)
        IN  IF ~n.some
            THEN Ret(Abort, t_create_note)
            ELSE
            LET note == n.val
                found == Some([note |-> note, to |-> to.val, memo |-> plaintext.memo])
            IN  IF Note_cm(note) # cmu
                THEN Ret(None, t_cmu)
                ELSE IF derive_esk(note).some
                THEN Ret(found, t_derived_esk)
                ELSE Ret(found, t_cmu)

\* Output recovery that builds the address with from_parts_unchecked.
try_sapling_output_recovery_with_ock_pk_d_unchecked(height, ock, cmu, epk, enc_ciphertext, out_ciphertext) ==
    IF enc_ciphertext.len # ENC_CIPHERTEXT_SIZE
    THEN Ret(Abort, <<"enc_len">>)
    ELSE IF out_ciphertext.len # OUT_CIPHERTEXT_SIZE
    THEN Ret(Abort, <<"enc_len", "out_len">>)
    ELSE
    LET t_out_tag == <<"enc_len", "out_len", "out_tag">>
        t_pk_d == Append(t_out_tag, "pk_d")
        t_esk == Append(t_pk_d, "esk")
        t_enc_tag == Append(t_esk, "enc_tag")
        op == open_to(out_ciphertext, EmptyAd, ock, ZeroNonce, OutLayout)
    IN
    IF ~op.some
    THEN Ret(None, t_out_tag)
    ELSE IF op.val.n # OUT_PLAINTEXT_SIZE
    THEN Ret(Abort, t_out_tag)
    ELSE IF ~Point_read(op.val.pt.pk_d).some
    THEN Ret(None, t_pk_d)
    ELSE IF ~as_prime_order(Point_read(op.val.pt.pk_d).val).some
    THEN Ret(None, t_pk_d)
    ELSE IF ~Fs_from_repr(op.val.pt.esk).some
    THEN Ret(None, t_esk)
    ELSE
    LET pk_d == as_prime_order(Point_read(op.val.pt.pk_d).val).val
        esk == Fs_from_repr(op.val.pt.esk).val
        shared_secret == sapling_ka_agree(esk, pk_d)
        key == kdf_sapling(shared_secret, epk)
        opened == open_to(enc_ciphertext, EmptyAd, key, ZeroNonce, EncLayout)
    IN
    IF ~opened.some
    THEN Ret(None, t_enc_tag)
    ELSE IF opened.val.n # NOTE_PLAINTEXT_SIZE
    THEN Ret(Abort, t_enc_tag)
    ELSE
    LET plaintext == opened.val.pt
        t_version == Append(t_enc_tag, "version")
        t_rcm == IF plaintext.lead = 1 THEN Append(t_version, "rcm") ELSE t_version
        t_g_d == Append(t_rcm, "g_d")
        t_epk == Append(t_g_d, "epk")
        t_from_parts == Append(t_epk, "from_parts")
        t_create_note == Append(t_from_parts, "create_note")
        t_cmu == Append(t_create_note, "cmu")
        t_derived_esk == Append(t_cmu, "derived_esk")
    IN
    IF ~plaintext_version_is_valid(height, plaintext.lead)
    THEN Ret(None, t_version)
    ELSE IF plaintext.lead = 1 /\ ~Fs_from_repr(plaintext.r).some
    THEN Ret(None, t_rcm)
    ELSE IF ~g_d(plaintext.d).some
    THEN Ret(None, t_g_d)
    ELSE IF PointMul(g_d(plaintext.d).val, Fs_to_repr(esk)) # epk
    THEN Ret(None, t_epk)
    ELSE
    LET rseed == ParseRseed(plaintext)
        diversifier == plaintext.d
        to == Some(from_parts_unchecked(diversifier, pk_d))
    IN  IF ~to.some
        THEN Ret(None, t_from_parts)
        ELSE
        LET n == create_note(to.val, plaintext.v, rseed)
        IN  IF ~n.some
            THEN Ret(Abort, t_create_note)
            ELSE
            LET note == n.val
                found == Some([note |-> note, to |-> to.val, memo |-> plaintext.memo])
            IN  IF Note_cm(note) # cmu
                THEN Ret(None, t_cmu)
                ELSE IF derive_esk(note).some
                THEN IF derive_esk(note).val # esk
                     THEN Ret(None, t_derived_esk)
                     ELSE Ret(found, t_derived_esk)
                ELSE Ret(found, t_cmu)

try_sapling_output_recovery_with_ock(height, ock, cmu, epk, enc_ciphertext, out_ciphertext) ==
    IF enc_ciphertext.len # ENC_CIPHERTEXT_SIZE
    THEN Ret(Abort, <<"enc_len">>)
    ELSE IF out_ciphertext.len # OUT_CIPHERTEXT_SIZE
    THEN Ret(Abort, <<"enc_len", "out_len">>)
    ELSE
    LET t_out_tag == <<"enc_len", "out_len", "out_tag">>
        t_pk_d == Append(t_out_tag, "pk_d")
        t_esk == Append(t_pk_d, "esk")
        t_enc_tag == Append(t_esk, "enc_tag")
        op == open_to(out_ciphertext, EmptyAd, ock, ZeroNonce, OutLayout)
    IN
    IF ~op.some
    THEN Ret(None, t_out_tag)
    ELSE IF op.val.n # OUT_PLAINTEXT_SIZE
    THEN Ret(Abort, t_out_tag)
    ELSE IF ~Point_read(op.val.pt.pk_d).some
    THEN Ret(None, t_pk_d)
    ELSE IF ~as_prime_order(Point_read(op.val.pt.pk_d).val).some
    THEN Ret(None, t_pk_d)
    ELSE IF ~Fs_from_repr(op.val.pt.esk).some
    THEN Ret(None, t_esk)
    ELSE
    LET pk_d == as_prime_order(Point_read(op.val.pt.pk_d).val).val
        esk == Fs_from_repr(op.val.pt.esk).val
        shared_secret == sapling_ka_agree(esk, pk_d)
        key == kdf_sapling(shared_secret, epk)
        opened == open_to(enc_ciphertext, EmptyAd, key, ZeroNonce, EncLayout)
    IN
    IF ~opened.some
    THEN Ret(None, t_enc_tag)
    ELSE IF opened.val.n # NOTE_PLAINTEXT_SIZE
    THEN Ret(Abort, t_enc_tag)
    ELSE
    LET plaintext == opened.val.pt
        t_version == Append(t_enc_tag, "version")
        t_rcm == IF plaintext.lead = 1 THEN Append(t_version, "rcm") ELSE t_version
        t_g_d == Append(t_rcm, "g_d")
        t_epk == Append(t_g_d, "epk")
        t_from_parts == Append(t_epk, "from_parts")
        t_create_note == Append(t_from_parts, "create_note")
        t_cmu == Append(t_create_note, "cmu")
        t_derived_esk == Append(t_cmu, "derived_esk")
    IN
    IF ~plaintext_version_is_valid(height, plaintext.lead)
    THEN Ret(None, t_version)
    ELSE IF plaintext.lead = 1 /\ ~Fs_from_repr(plaintext.r).some
    THEN Ret(None, t_rcm)
    ELSE IF ~g_d(plaintext.d).some
    THEN Ret(None, t_g_d)
    ELSE IF PointMul(g_d(plaintext.d).val, Fs_to_repr(esk)) # epk
    THEN Ret(None, t_epk)
    ELSE
    LET rseed == ParseRseed(plaintext)
        diversifier == plaintext.d
        to == from_parts(diversifier, pk_d)
    IN  IF ~to.some
        THEN Ret(None, t_from_parts)
        ELSE
        LET n == create_note(to.val, plaintext.v, rseed)
        IN  IF ~n.some
            THEN Ret(Abort, t_create_note)
            ELSE
            LET note == n.val
                found == Some([note |-> note, to |-> to.val, memo |-> plaintext.memo])
            IN  IF Note_cm(note) # cmu
                THEN Ret(None, t_cmu)
                ELSE IF derive_esk(note).some
                THEN IF derive_esk(note).val # esk
                     THEN Ret(None, t_derived_esk)
                     ELSE Ret(found, t_derived_esk)
                ELSE Ret(found, t_cmu)

\* Recovery with ovk that derives its key with epk in the place of cv.
try_sapling_output_recovery_cv_dropped(height, ovk, cv, cmu, epk, enc_ciphertext, out_ciphertext) ==
    LET ock == prf_ock(ovk, epk, cmu, epk)
        recovered == try_sapling_output_recovery_with_ock(height, ock, cmu, epk,
                                                          enc_ciphertext, out_ciphertext)
    IN  Ret(recovered.res, <<"prf_ock">> \o recovered.trace)

\* The argument prf_ock(ovk, cv, cmu, epk) is evaluated before the call it is
\* passed to, hence before the length assertions of the callee.
try_sapling_output_recovery(height, ovk, cv, cmu, epk, enc_ciphertext, out_ciphertext) ==
    LET ock == prf_ock(ovk, cv, cmu, epk)
        recovered == try_sapling_output_recovery_with_ock(height, ock, cmu, epk,
                                                          enc_ciphertext, out_ciphertext)
    IN  Ret(recovered.res, <<"prf_ock">> \o recovered.trace)

(***************************************************************************)
(* BLS12-381 (pairing/src/bls12_381), scaled down to the BLS12 curve of     *)
(* parameter x = -38: the same polynomials give the prime moduli of Fq and  *)
(* Fr.  The multiplicative group of Fq12 is cyclic; it is modelled by its   *)
(* quotient of order UnitsOrder, an element by its discrete logarithm, so   *)
(* that multiplication adds, squaring doubles, and a power map multiplies.  *)
(* Fq12 zero is the one value outside the group.                            *)
(***************************************************************************)
BLS_X == 38

BLS_X_IS_NEGATIVE == TRUE

\* r(x) = x^4 - x^2 + 1
FrModulus == BLS_X * BLS_X * BLS_X * BLS_X - BLS_X * BLS_X + 1

\* (x - 1)^2 / 3
BlsCofactor == ((BLS_X + 1) * (BLS_X + 1)) \div 3

\* p(x) = (x - 1)^2 r(x) / 3 + x
FqModulus == BlsCofactor * FrModulus - BLS_X

\* 5 and 7 divide p^12 - 1 for every p they do not divide.
UnitsCofactor == 35

UnitsOrder == UnitsCofactor * FrModulus

RECURSIVE MulMod(_, _, _)
MulMod(a, b, m) ==
    IF a = 0 \/ b = 0 THEN 0
    ELSE (((MulMod(a, b \div 16, m) * 16) % m) + ((a % m) * (b % 16))) % m

RECURSIVE PowMod(_, _, _)
PowMod(a, n, m) ==
    IF n = 0 THEN 1 % m ELSE MulMod(a % m, PowMod(a, n - 1, m), m)

RECURSIVE ProdMod(_, _)
ProdMod(factors, m) ==
    IF factors = <<>> THEN 1 % m
    ELSE MulMod(Head(factors) % m, ProdMod(Tail(factors), m), m)

\* (p^4 - p^2 + 1) / r modulo UnitsOrder, expanded with p = c r - x where
\* c = BlsCofactor, r = FrModulus, x = BLS_X.
HardPartExponent ==
    LET c == BlsCofactor
        r == FrModulus
        x == BLS_X
        m == UnitsOrder
    IN  (ProdMod(<<c, c, c, c, r, r, r>>, m)
         + (m - ProdMod(<<4, c, c, c, x, r, r>>, m))
         + ProdMod(<<6, c, c, x, x, r>>, m)
         + (m - ProdMod(<<4, c, x, x, x>>, m))
         + (m - ProdMod(<<c, c, r>>, m))
         + ProdMod(<<2, c, x>>, m)
         + 1) % m

\* (p^12 - 1) / r = (p^6 - 1)(p^2 + 1)(p^4 - p^2 + 1) / r modulo UnitsOrder.
PairingExponent ==
    ProdMod(<<PowMod(FqModulus % UnitsOrder, 6, UnitsOrder) + UnitsOrder - 1,
              PowMod(FqModulus % UnitsOrder, 2, UnitsOrder) + 1,
              HardPartExponent>>, UnitsOrder)

Fq12_zero == [zero |-> TRUE, log |-> 0]

Fq12(log) == [zero |-> FALSE, log |-> log % UnitsOrder]

Fq12_one == Fq12(0)

Fq12_mul(a, b) == IF a.zero \/ b.zero THEN Fq12_zero ELSE Fq12(a.log + b.log)

Fq12_square(a) == Fq12_mul(a, a)

\* The power map a -> a^n.
Fq12_pow_vartime(a, n) ==
    IF a.zero THEN (IF n = 0 THEN Fq12_one ELSE Fq12_zero)
    ELSE Fq12(MulMod(a.log, n % UnitsOrder, UnitsOrder))

\* The precomputed Frobenius coefficients: p^power modulo UnitsOrder.
FROBENIUS_COEFF == [power \in 0..11 |-> PowMod(FqModulus % UnitsOrder, power, UnitsOrder)]

\* frobenius_map(power): a -> a^(p^power)
Fq12_frobenius_map(a, power) ==
    IF a.zero THEN Fq12_zero
    ELSE Fq12(MulMod(a.log, FROBENIUS_COEFF[power], UnitsOrder))

\* conjugate: the automorphism of Fq12 over Fq6, a -> a^(p^6)
Fq12_conjugate(a) == Fq12_frobenius_map(a, 6)

Fq12_invert(a) == IF a.zero THEN None ELSE Some(Fq12(UnitsOrder - a.log))

(***************************************************************************)
(* Gt                                                                      *)
(***************************************************************************)
Gt_identity == Fq12_one

Gt_add(self, rhs) == Fq12_mul(self, rhs)

Gt_double(self) == Fq12_square(self)

Gt_neg(self) == Fq12_conjugate(self)

\* subtle::ConditionallySelectable: a when choice is 0, b when it is 1.
conditional_select(a, b, choice) == IF choice = 1 THEN b ELSE a

\* Number of bytes of the representation of an Fr element (32 in the source,
\* whose modulus has 255 bits; here the modulus has 21 bits).
FrReprBytes == 3

\* Fr::to_repr: the canonical value as little-endian bytes.
Fr_repr(k) == [j \in 1..FrReprBytes |-> (k \div (256 ^ (j - 1))) % 256]

\* The bits of the representation with the bytes in their stored order,
\* least significant byte first.
ReprBits_unreversed(repr) ==
    [n \in 1..(8 * Len(repr)) |->
        LET byte == repr[1 + ((n - 1) \div 8)]
            i == 7 - ((n - 1) % 8)
        IN  (byte \div (2 ^ i)) % 2]

\* other.to_repr().as_ref().iter().rev().flat_map(|byte| (0..8).rev().map(...)):
\* the bits of the representation, most significant first.
ReprBits(repr) ==
    [n \in 1..(8 * Len(repr)) |->
        LET byte == repr[Len(repr) - ((n - 1) \div 8)]
            i == 7 - ((n - 1) % 8)
        IN  (byte \div (2 ^ i)) % 2]

\* The loop with the addition made only for a set bit.
RECURSIVE GtMulLoop_branching(_, _)
GtMulLoop_branching(st, self) ==
    IF st.bits = <<>> THEN [val |-> st.acc, ops |-> st.ops]
    ELSE LET doubled == Gt_double(st.acc)
         IN  IF Head(st.bits) = 1
             THEN GtMulLoop_branching([acc |-> Gt_add(doubled, self),
                                       bits |-> Tail(st.bits),
                                       ops |-> st.ops \o <<"double", "add">>], self)
             ELSE GtMulLoop_branching([acc |-> doubled,
                                       bits |-> Tail(st.bits),
                                       ops |-> st.ops \o <<"double">>], self)

\* The loop of Mul<&Fr> for Gt from the state st on: acc, the bits still to
\* process and the operations executed so far.
RECURSIVE GtMulLoop(_, _)
GtMulLoop(st, self) ==
    IF st.bits = <<>> THEN [val |-> st.acc, ops |-> st.ops]
    ELSE LET doubled == Gt_double(st.acc)
             selected == conditional_select(doubled, Gt_add(doubled, self), Head(st.bits))
         IN  GtMulLoop([acc |-> selected,
                        bits |-> Tail(st.bits),
                        ops |-> st.ops \o <<"double", "add", "conditional_select">>],
                       self)

\* impl Mul<&Fr> for Gt: .skip(1) drops the leading bit.
Gt_mul(self, other) ==
    GtMulLoop([acc |-> Gt_identity,
               bits |-> Tail(ReprBits(Fr_repr(other))),
               ops |-> <<>>], self)

(***************************************************************************)
(* MillerLoopResult for Fq12                                               *)
(***************************************************************************)
exp_by_x(f, x) ==
    LET powered == Fq12_pow_vartime(f, x)
    IN  IF BLS_X_IS_NEGATIVE THEN Fq12_conjugate(powered) ELSE powered

\* In the two parts of final_exponentiation every name is a local of the
\* source at one of its assignments, in program order.

\* The easy part with self in the place of its inverse.
easy_part_uninverted(self) ==
    IF ~Fq12_invert(self).some THEN None
    ELSE LET r_0 == Fq12_mul(Fq12_conjugate(self), self)
         IN  Some(Fq12_mul(Fq12_frobenius_map(r_0, 2), r_0))

\* The easy part: None when self has no inverse.
easy_part(self) ==
    LET f1 == Fq12_conjugate(self)
        inverted == Fq12_invert(self)
    IN  IF ~inverted.some THEN None
        ELSE
        LET f2_0 == inverted.val
            r_0 == Fq12_mul(f1, f2_0)
            f2_1 == r_0
            r_1 == Fq12_frobenius_map(r_0, 2)
            r == Fq12_mul(r_1, f2_1)
        IN  Some(r)

\* The hard part, on the result r of the easy part.
hard_part(r) ==
    LET x_0 == BLS_X
        y0 == Fq12_square(r)
        y1_0 == exp_by_x(y0, x_0)
        x_1 == x_0 \div 2
        y2_0 == exp_by_x(y1_0, x_1)
        x_2 == x_1 * 2
        y3_0 == Fq12_conjugate(r)
        y1_1 == Fq12_mul(y1_0, y3_0)
        y1_2 == Fq12_conjugate(y1_1)
        y1_3 == Fq12_mul(y1_2, y2_0)
        y2_1 == exp_by_x(y1_3, x_2)
        y3_1 == exp_by_x(y2_1, x_2)
        y1_4 == Fq12_conjugate(y1_3)
        y3_2 == Fq12_mul(y3_1, y1_4)
        y1_5 == Fq12_conjugate(y1_4)
        y1_6 == Fq12_frobenius_map(y1_5, 3)
        y2_2 == Fq12_frobenius_map(y2_1, 2)
        y1_7 == Fq12_mul(y1_6, y2_2)
        y2_3 == exp_by_x(y3_2, x_2)
        y2_4 == Fq12_mul(y2_3, y0)
        y2_5 == Fq12_mul(y2_4, r)
        y1_8 == Fq12_mul(y1_7, y2_5)
        y2_6 == Fq12_frobenius_map(y3_2, 1)
        y1 == Fq12_mul(y1_8, y2_6)
    IN  y1

\* final_exponentiation: the unwrap aborts when self has no inverse.
final_exponentiation(self) ==
    LET easy == easy_part(self)
    IN  IF easy.some THEN Some(hard_part(easy.val)) ELSE Abort

(***************************************************************************)
(* G1, G2 and G2Prepared.  G1 and G2 have prime order FrModulus; a point is *)
(* modelled by its multiple of the generator, the identity by 0.            *)
(***************************************************************************)
G_identity == 0

is_identity(point) == point = G_identity

G_add(a, b) == (a + b) % FrModulus

G_mul(point, k) == MulMod(point % FrModulus, k % FrModulus, FrModulus)

\* BitIterator::<u64, _>::new(&[v]): the 64 bits of v, most significant first.
BitIterator(v) ==
    [n \in 1..64 |-> IF 64 - n > 30 THEN FALSE ELSE (v \div (2 ^ (64 - n))) % 2 = 1]

\* BLS_X as the source has it, 0xd201000000010000, in 16-bit limbs, the most
\* significant first: the value the two loops over BLS_X >> 1 run on.  The
\* arithmetic of the curve is modelled at the scaled-down BLS_X above.
BLS_X_U64 == <<53761, 0, 1, 0>>

\* BitIterator::<u64, _>::new(&[v]) for a u64 given by its limbs.
BitIterator_u64(limbs) ==
    [n \in 1..64 |-> (limbs[((n - 1) \div 16) + 1] \div (2 ^ (15 - ((n - 1) % 16)))) % 2 = 1]

\* v >> 1 on the 64 bits of v.
shr_1(bits) == <<FALSE>> \o SubSeq(bits, 1, Len(bits) - 1)

\* The bits from the first set one on, that one included.
from_found_one(bits) ==
    IF \A n \in 1..Len(bits) : ~bits[n] THEN <<>>
    ELSE LET one == CHOOSE n \in 1..Len(bits) : bits[n] /\ \A m \in 1..(n - 1) : ~bits[m]
         IN  SubSeq(bits, one, Len(bits))

\* if !found_one { found_one = i; continue; }: the bits a loop over the
\* iterator acts on, those after the first set one.
after_found_one(bits) ==
    IF \A n \in 1..Len(bits) : ~bits[n] THEN <<>>
    ELSE LET one == CHOOSE n \in 1..Len(bits) : bits[n] /\ \A m \in 1..(n - 1) : ~bits[m]
         IN  SubSeq(bits, one + 1, Len(bits))

\* doubling_step(&mut r): the coefficients of the tangent at r, and r doubled.
doubling_step(r) ==
    [coeffs |-> [step |-> "doubling", at |-> r, q |-> r], r |-> G_add(r, r)]

\* addition_step(&mut r, &q): the coefficients of the line through r and q,
\* and r + q.
addition_step(r, q) ==
    [coeffs |-> [step |-> "addition", at |-> r, q |-> q], r |-> G_add(r, q)]

\* The loop of G2Prepared::from_affine over the bits of BLS_X >> 1, from the
\* state st on: the bits still to process, r and coeffs.
RECURSIVE from_affine_loop(_, _)
from_affine_loop(st, q) ==
    IF st.bits = <<>> THEN st
    ELSE LET doubled == doubling_step(st.r)
             pushed == Append(st.coeffs, doubled.coeffs)
         IN  IF Head(st.bits)
             THEN LET added == addition_step(doubled.r, q)
                  IN  from_affine_loop([st EXCEPT !.bits = Tail(st.bits),
                                                  !.r = added.r,
                                                  !.coeffs = Append(pushed, added.coeffs)], q)
             ELSE from_affine_loop([st EXCEPT !.bits = Tail(st.bits),
                                              !.r = doubled.r,
                                              !.coeffs = pushed], q)

\* from_affine without the doubling step after the loop.
G2Prepared_from_affine_unfinished(q) ==
    IF is_identity(q)
    THEN [coeffs |-> <<>>, infinity |-> TRUE]
    ELSE [coeffs |-> from_affine_loop([bits |-> after_found_one(BitIterator(BLS_X \div 2)),
                                       r |-> q,
                                       coeffs |-> <<>>], q).coeffs,
          infinity |-> FALSE]

\* G2Prepared::from_affine(q) with the iterator over the bits x_shr_1 of
\* BLS_X >> 1.
from_affine_x(x_shr_1, q) ==
    IF is_identity(q)
    THEN [coeffs |-> <<>>, infinity |-> TRUE]
    ELSE LET looped == from_affine_loop([bits |-> after_found_one(x_shr_1),
                                         r |-> q,
                                         coeffs |-> <<>>], q)
         IN  [coeffs |-> Append(looped.coeffs, doubling_step(looped.r).coeffs),
              infinity |-> FALSE]

G2Prepared_from_affine(q) == from_affine_x(BitIterator(BLS_X \div 2), q)

G2Prepared_is_identity(self) == self.infinity

(***************************************************************************)
(* MultiMillerLoop for Bls12                                               *)
(***************************************************************************)
\* The element of Fq12 that ell multiplies f by: the line with the given
\* coefficients evaluated at p.  Up to an r-th power, which the final
\* exponentiation maps to one, it is a power of a fixed element linear in p
\* and in the points the line passes through.
LineValue(coeffs, p) ==
    Fq12(G_mul(p, G_add(coeffs.at, coeffs.q))
         + FrModulus * ((p + 2 * coeffs.at + coeffs.q + 1) % UnitsCofactor))

\* ell(f, coeffs, p): f.mul_by_014 of the coefficients scaled by p.x and p.y
ell(f, coeffs, p) == Fq12_mul(f, LineValue(coeffs, p))

\* for &mut (p, ref mut coeffs) in &mut pairs { ell(&mut f, coeffs.next().unwrap(), p) }
\* from pair number i on; next is the number of coefficients an iterator gave.
\* ops records each ell with the pair, the number of the coefficient and
\* the loop it was called from (slot).
RECURSIVE ell_pairs(_, _, _)
ell_pairs(st, i, slot) ==
    IF st.abort \/ i > Len(st.pairs) THEN st
    ELSE LET pair == st.pairs[i]
         IN  IF pair.next >= Len(pair.coeffs)
             THEN [st EXCEPT !.abort = TRUE]
             ELSE ell_pairs([st EXCEPT !.f = ell(st.f, pair.coeffs[pair.next + 1], pair.p),
                                       !.pairs[i].next = pair.next + 1,
                                       !.reads = st.reads + 1,
                                       !.ops = Append(st.ops,
                                                      [op |-> "ell", pair |-> i,
                                                       k |-> pair.next + 1,
                                                       slot |-> slot])],
                            i + 1, slot)

\* The loop with f squared at the start of an iteration.
RECURSIVE miller_loop_square_first(_)
miller_loop_square_first(st) ==
    IF st.abort \/ st.bits = <<>> THEN st
    ELSE LET squared == [st EXCEPT !.f = Fq12_square(st.f),
                                   !.ops = Append(st.ops, [op |-> "square"])]
             first == ell_pairs(squared, 1, "doubling")
             second == IF Head(st.bits) THEN ell_pairs(first, 1, "addition") ELSE first
         IN  miller_loop_square_first([second EXCEPT !.bits = Tail(st.bits)])

\* The loop of multi_miller_loop over the bits of BLS_X >> 1, from the state
\* st on: the bits still to process, f and the pairs.
RECURSIVE miller_loop(_)
miller_loop(st) ==
    IF st.abort \/ st.bits = <<>> THEN st
    ELSE LET first == ell_pairs(st, 1, "doubling")
             second == IF Head(st.bits) THEN ell_pairs(first, 1, "addition") ELSE first
         IN  miller_loop([second EXCEPT !.bits = Tail(st.bits),
                                        !.f = Fq12_square(second.f),
                                        !.ops = Append(second.ops, [op |-> "square"])])

\* pairs without the filter: every term, each with the iterator of its
\* coefficients.
retained_unfiltered(terms) ==
    [i \in 1..Len(terms) |->
        [p |-> terms[i].p, coeffs |-> terms[i].q.coeffs, next |-> 0]]

\* pairs: the terms with neither side the identity, each with the iterator
\* of its coefficients.
RECURSIVE retained(_)
retained(terms) ==
    IF terms = <<>> THEN <<>>
    ELSE LET term == Head(terms)
         IN  IF ~is_identity(term.p) /\ ~G2Prepared_is_identity(term.q)
             THEN <<[p |-> term.p, coeffs |-> term.q.coeffs, next |-> 0]>>
                  \o retained(Tail(terms))
             ELSE retained(Tail(terms))

\* multi_miller_loop(terms) with the iterator over the bits x_shr_1 of
\* BLS_X >> 1: res is the Fq12 returned, or Abort when a
\* coeffs.next().unwrap() found the iterator empty; pairs and reads tell
\* what was consumed.
multi_miller_loop_x(x_shr_1, terms) ==
    LET looped == miller_loop([bits |-> after_found_one(x_shr_1),
                               f |-> Fq12_one,
                               pairs |-> retained(terms),
                               abort |-> FALSE,
                               reads |-> 0,
                               ops |-> <<>>])
        last == ell_pairs(looped, 1, "doubling")
        f == IF BLS_X_IS_NEGATIVE THEN Fq12_conjugate(last.f) ELSE last.f
    IN  [res |-> IF last.abort THEN Abort ELSE Some(f),
         pairs |-> last.pairs,
         reads |-> last.reads,
         ops |-> IF last.abort THEN last.ops
                 ELSE IF BLS_X_IS_NEGATIVE
                 THEN Append(last.ops, [op |-> "conjugate"])
                 ELSE last.ops]

\* Bls12::multi_miller_loop(terms) at the scaled-down BLS_X.
multi_miller_loop(terms) == multi_miller_loop_x(BitIterator(BLS_X \div 2), terms)

\* The Miller loop of p and q without the final exponentiation.
pairing_unreduced(p, q) ==
    multi_miller_loop(<<[p |-> p, q |-> G2Prepared_from_affine(q)]>>).res

\* Engine::pairing(p, q)
pairing(p, q) ==
    LET looped == multi_miller_loop(<<[p |-> p, q |-> G2Prepared_from_affine(q)]>>)
    IN  IF looped.res.some THEN final_exponentiation(looped.res.val) ELSE Abort

(***************************************************************************)
(* Memo.  A memo is the sequence of its 512 bytes; a slice and a string     *)
(* are the sequences of their bytes, a string one that is valid UTF-8.      *)
(***************************************************************************)
MEMO_SIZE == 512

Ok(x) == [ok |-> TRUE, val |-> x]

Err == [ok |-> FALSE]

\* impl Default for Memo
Memo_default == [i \in 1..MEMO_SIZE |-> IF i = 1 THEN 246 ELSE 0]

\* Memo::from_bytes that cuts a slice that is too long.
Memo_from_bytes_truncating(memo) ==
    IF memo = <<>>
    THEN Some(Memo_default)
    ELSE Some([i \in 1..MEMO_SIZE |-> IF i <= Len(memo) THEN memo[i] ELSE 0])

\* Memo::from_bytes(memo)
Memo_from_bytes(memo) ==
    IF memo = <<>>
    THEN Some(Memo_default)
    ELSE IF Len(memo) <= MEMO_SIZE
    THEN Some([i \in 1..MEMO_SIZE |-> IF i <= Len(memo) THEN memo[i] ELSE 0])
    ELSE None

\* Option::ok_or(())
ok_or(option) == IF option.some THEN Ok(option.val) ELSE Err

\* <Memo as FromStr>::from_str(memo)
Memo_from_str(memo) == ok_or(Memo_from_bytes(memo))

\* The length of the UTF-8 sequence a byte begins, 0 for a byte that begins
\* none: 0x00-0x7F, 0xC2-0xDF, 0xE0-0xEF, 0xF0-0xF4.
utf8_char_width(b) ==
    IF b < 128 THEN 1
    ELSE IF b >= 194 /\ b <= 223 THEN 2
    ELSE IF b >= 224 /\ b <= 239 THEN 3
    ELSE IF b >= 240 /\ b <= 244 THEN 4
    ELSE 0

\* A continuation byte, 0x80-0xBF.
utf8_is_cont_byte(b) == b >= 128 /\ b <= 191

\* The second byte a first byte admits: no overlong form, no surrogate,
\* nothing above U+10FFFF.
utf8_second_byte(first, b) ==
    CASE first = 224 -> b >= 160 /\ b <= 191
      [] first = 237 -> b >= 128 /\ b <= 159
      [] first = 240 -> b >= 144 /\ b <= 191
      [] first = 244 -> b >= 128 /\ b <= 143
      [] OTHER -> utf8_is_cont_byte(b)

\* str::from_utf8(v).is_ok(): every byte that is not a continuation byte
\* begins a sequence that is complete, and every continuation byte belongs
\* to the sequence begun at most three bytes before it.
from_utf8_is_ok(v) ==
    \A i \in 1..Len(v) :
        IF utf8_is_cont_byte(v[i])
        THEN \E d \in 1..3 :
                 /\ i - d >= 1
                 /\ utf8_char_width(v[i - d]) > d
                 /\ \A m \in 1..(d - 1) : utf8_is_cont_byte(v[i - m])
        ELSE LET w == utf8_char_width(v[i])
             IN  /\ w >= 1
                 /\ i + w - 1 <= Len(v)
                 /\ w >= 2 => utf8_second_byte(v[i], v[i + 1])
                 /\ \A m \in 1..(w - 1) : utf8_is_cont_byte(v[i + m])

\* str::from_utf8(v)
from_utf8(v) == IF from_utf8_is_ok(v) THEN Ok(v) ELSE Err

\* memo.trim_end_matches(char::from(0)).to_owned()
trim_end_matches_nul(s) ==
    LET kept == {i \in 1..Len(s) : \E m \in i..Len(s) : s[m] # 0}
    IN  SubSeq(s, 1, Cardinality(kept))

\* Result::map(|memo| memo.trim_end_matches(char::from(0)).to_owned())
map_trim(result) == IF result.ok THEN Ok(trim_end_matches_nul(result.val)) ELSE Err

\* Memo::to_utf8 that takes every memo for text.
Memo_to_utf8_always_text(self) == Some(map_trim(from_utf8(self)))

\* Memo::to_utf8(&self)
Memo_to_utf8(self) ==
    IF self[1] < 245
    THEN Some(map_trim(from_utf8(self)))
    ELSE None

(***************************************************************************)
(* LocalTxProver.  The file system is what the calls of the function see:   *)
(* the default parameters folder, if one can be determined, whether it      *)
(* exists, and for each of the two parameter files whether it is absent,    *)
(* present with another hash than the expected one, or valid.               *)
(***************************************************************************)
\* load_parameters(spend_path, output_path, None): panics unless both files
\* have the expected hashes.
load_parameters(fs) ==
    IF fs.spend = "valid" /\ fs.output = "valid"
    THEN Some([spend_params |-> "spend", spend_vk |-> "spend_vk", output_params |-> "output"])
    ELSE Abort

\* LocalTxProver::new(spend_path, output_path)
LocalTxProver_new(fs, trace) ==
    Ret(load_parameters(fs), Append(trace, "load_parameters"))

\* with_default_location that does not look for the output parameters.
with_default_location_spend_only(fs) ==
    LET t_folder == <<"default_params_folder">>
        t_dir == Append(t_folder, "params_dir.exists")
        t_spend == Append(t_dir, "spend_path.exists")
    IN  IF ~fs.folder.some
        THEN Ret(None, t_folder)
        ELSE IF ~fs.dir
        THEN Ret(None, t_dir)
        ELSE IF fs.spend = "absent"
        THEN Ret(None, t_spend)
        ELSE LET made == LocalTxProver_new(fs, t_spend)
             IN  Ret(IF made.res.some THEN Some(made.res.val) ELSE Abort, made.trace)

\* LocalTxProver::with_default_location(): the result, Abort for a panic,
\* and the trace of what it asked of the file system.
with_default_location(fs) ==
    LET t_folder == <<"default_params_folder">>
        t_dir == Append(t_folder, "params_dir.exists")
        t_spend == Append(t_dir, "spend_path.exists")
        t_output == Append(t_spend, "output_path.exists")
    IN  IF ~fs.folder.some
        THEN Ret(None, t_folder)
        ELSE IF ~fs.dir
        THEN Ret(None, t_dir)
        ELSE IF fs.spend = "absent"
        THEN Ret(None, t_spend)
        ELSE IF fs.output = "absent"
        THEN Ret(None, t_output)
        ELSE LET made == LocalTxProver_new(fs, t_output)
             IN  Ret(IF made.res.some THEN Some(made.res.val) ELSE Abort, made.trace)

(***************************************************************************)
(* The state machine                                                       *)
(***************************************************************************)
VARIABLES
    pc,        \* "start", "encrypted", "ready", "note", "compact", "ovk", "done"
    height,    \* the height the decryption functions are called with
    ne,        \* the sender's SaplingNoteEncryption
    enc,       \* the enc ciphertext handed to the decryption functions
    out,       \* the out ciphertext handed to the recovery functions
    args,      \* ivk, epk, cmu, ovk, cv, ock handed to the decryption functions
    tamper,    \* what was altered after encryption
    r_note,    \* result of try_sapling_note_decryption
    r_compact, \* result of try_sapling_compact_note_decryption
    r_ovk,     \* result of try_sapling_output_recovery
    r_ock      \* result of try_sapling_output_recovery_with_ock

VARIABLES
    call1,     \* the first call made to the pairing engine, with what it returned
    call2      \* the second call

note_vars == <<pc, height, ne, enc, out, args, tamper,
               r_note, r_compact, r_ovk, r_ock>>

pairing_vars == <<call1, call2>>

vars == <<pc, height, ne, enc, out, args, tamper,
          r_note, r_compact, r_ovk, r_ock, call1, call2>>

\* No call was made.
NoCall == [fn |-> "none"]

NotRun == Ret(None, <<>>)

\* What was altered, and the byte written where one was.
Alteration(what, byte) == [what |-> what, byte |-> byte]

NoAlteration == Alteration("none", 0)

NoCiphertext == [len |-> 0]

\* The value commitment of the output description (random_enc_ciphertext_with).
HonestCv == 5

Diversifiers == 0..2

\* The memos the sender chooses from.
Memos == {0, 1}

ValidDiversifiers == {d \in Diversifiers : g_d(d).some}

\* The 32-byte strings an rseed or an encoded rcm is drawn from.
RBytes == 0..(2 ^ EncBits.r - 1)

Rseeds == {BeforeZip212(rcm) : rcm \in Fs} \cup {AfterZip212(rseed) : rseed \in RBytes}

Init ==
    /\ pc = "start"
    /\ height = 0
    /\ ne = [esk |-> 0]
    /\ enc = NoCiphertext
    /\ out = NoCiphertext
    /\ args = [ivk |-> 0]
    /\ tamper = NoAlteration
    /\ r_note = NotRun
    /\ r_compact = NotRun
    /\ r_ovk = NotRun
    /\ r_ock = NotRun
    /\ call1 = NoCall
    /\ call2 = NoCall

\* random_enc_ciphertext_with: an address of ivk, a note to it, the encryption
\* context and the two ciphertexts.
Encrypt ==
    /\ pc = "start"
    /\ \E h \in Heights, ivk \in Fs, d \in ValidDiversifiers, value \in 0..MaxValue,
          rseed \in Rseeds, memo \in Memos, ovk \in 0..MaxOvk, rng \in Fs :
          LET pk_d == PointMul(g_d(d).val, ivk)
              pa == from_parts_unchecked(d, pk_d)
              note == create_note(pa, value, rseed).val
              cmu == Note_cm(note)
              self == SaplingNoteEncryption_new(ovk, note, pa, memo, rng)
              enc_ciphertext == encrypt_note_plaintext(self)
              out_ciphertext == encrypt_outgoing_plaintext(self, HonestCv, cmu)
              ock == prf_ock(ovk, HonestCv, cmu, self.epk)
              a == [ivk |-> ivk, epk |-> self.epk, cmu |-> cmu, ovk |-> ovk,
                    cv |-> HonestCv, ock |-> ock, compact_len |-> COMPACT_NOTE_SIZE]
          IN  /\ height' = h
              /\ ne' = self
              /\ enc' = enc_ciphertext
              /\ out' = out_ciphertext
              /\ args' = a
    /\ pc' = "encrypted"
    /\ UNCHANGED <<tamper, r_note, r_compact, r_ovk, r_ock>>
    /\ UNCHANGED pairing_vars

Altered(what, byte) ==
    /\ pc' = "ready"
    /\ tamper' = Alteration(what, byte)
    /\ UNCHANGED <<height, r_note, r_compact, r_ovk, r_ock>>

\* The output is handed over as it was produced.
NoTamper ==
    /\ pc = "encrypted"
    /\ Altered("none", 0)
    /\ UNCHANGED <<ne, enc, out, args>>
    /\ UNCHANGED pairing_vars

\* enc_ciphertext[ENC_CIPHERTEXT_SIZE - 1] ^= 0xff
FlipEncTag ==
    /\ pc = "encrypted"
    /\ enc' = [enc EXCEPT !.tag.last = XOR(@, 255)]
    /\ Altered("enc_tag", 0)
    /\ UNCHANGED <<ne, out, args>>
    /\ UNCHANGED pairing_vars

\* out_ciphertext[OUT_CIPHERTEXT_SIZE - 1] ^= 0xff
FlipOutTag ==
    /\ pc = "encrypted"
    /\ out' = [out EXCEPT !.tag.last = XOR(@, 255)]
    /\ Altered("out_tag", 0)
    /\ UNCHANGED <<ne, enc, args>>
    /\ UNCHANGED pairing_vars

\* A byte of the encrypted memo (offset >= COMPACT_NOTE_SIZE) is altered.
FlipEncMemo ==
    /\ pc = "encrypted"
    /\ enc' = [enc EXCEPT !.body.memo = XOR(@, 1)]
    /\ Altered("enc_memo", 0)
    /\ UNCHANGED <<ne, out, args>>
    /\ UNCHANGED pairing_vars

\* reencrypt_enc_ciphertext: the sender's key is recovered from the out
\* ciphertext, the note plaintext changed in one field and sealed again.
reencrypt_enc_ciphertext(ovk, cv, cmu, epk, enc_ciphertext, out_ciphertext, field, byte) ==
    LET ock == prf_ock(ovk, cv, cmu, epk)
        op == open_to(out_ciphertext, EmptyAd, ock, ZeroNonce, OutLayout).val.pt
        pk_d == as_prime_order(Point_read(op.pk_d).val).val
        esk == Fs_from_repr(op.esk).val
        shared_secret == sapling_ka_agree(esk, pk_d)
        key == kdf_sapling(shared_secret, epk)
        plaintext == open_to(enc_ciphertext, EmptyAd, key, ZeroNonce, EncLayout).val.pt
        modified == [plaintext EXCEPT ![field] = byte]
    IN  seal_to(modified, NOTE_PLAINTEXT_SIZE, EmptyAd, key, ZeroNonce, EncLayout)

ReencryptFields == {"lead", "d", "r"}

ReencryptBytes == 0..3

Reencrypt ==
    /\ pc = "encrypted"
    /\ \E field \in ReencryptFields, byte \in ReencryptBytes :
          /\ enc' = reencrypt_enc_ciphertext(args.ovk, args.cv, args.cmu, args.epk,
                                             enc, out, field, byte)
          /\ enc' # enc
          /\ Altered(field, byte)
    /\ UNCHANGED <<ne, out, args>>
    /\ UNCHANGED pairing_vars

\* The call is made with another ivk (decryption_with_invalid_ivk).
WrongIvk ==
    /\ pc = "encrypted"
    /\ \E ivk \in Fs \ {args.ivk} : args' = [args EXCEPT !.ivk = ivk]
    /\ Altered("ivk", 0)
    /\ UNCHANGED <<ne, enc, out>>
    /\ UNCHANGED pairing_vars

\* The call is made with another epk (decryption_with_invalid_epk,
\* recovery_with_invalid_epk); ock is the sender's, or the one of the new epk.
WrongEpk ==
    /\ pc = "encrypted"
    /\ \E epk \in PrimeOrderPoints \ {args.epk} :
       \E ock \in {args.ock, prf_ock(args.ovk, args.cv, args.cmu, epk)} :
          args' = [args EXCEPT !.epk = epk, !.ock = ock]
    /\ Altered("epk", 0)
    /\ UNCHANGED <<ne, enc, out>>
    /\ UNCHANGED pairing_vars

\* Commitments other than cmu: of another value, and of unrelated randomness.
OtherCmus(cmu) ==
    {[cmu EXCEPT !.v = XOR(@, 1)], [cmu EXCEPT !.rcm = [prf |-> 9, of |-> 0]]}

\* The call is made with another cmu (decryption_with_invalid_cmu,
\* recovery_with_invalid_cmu); ock is the sender's, or the one of the new cmu.
WrongCmu ==
    /\ pc = "encrypted"
    /\ \E cmu \in OtherCmus(args.cmu) :
       \E ock \in {args.ock, prf_ock(args.ovk, args.cv, cmu, args.epk)} :
          args' = [args EXCEPT !.cmu = cmu, !.ock = ock]
    /\ Altered("cmu", 0)
    /\ UNCHANGED <<ne, enc, out>>
    /\ UNCHANGED pairing_vars

\* recovery_with_invalid_ovk: ovk.0[0] ^= 0xff
WrongOvk ==
    /\ pc = "encrypted"
    /\ args' = [args EXCEPT !.ovk = XOR(@, 255)]
    /\ Altered("ovk", 0)
    /\ UNCHANGED <<ne, enc, out>>
    /\ UNCHANGED pairing_vars

\* recovery_with_invalid_cv
WrongCv ==
    /\ pc = "encrypted"
    /\ args' = [args EXCEPT !.cv = HonestCv + 1]
    /\ Altered("cv", 0)
    /\ UNCHANGED <<ne, enc, out>>
    /\ UNCHANGED pairing_vars

\* recovery_with_invalid_ock
WrongOck ==
    /\ pc = "encrypted"
    /\ args' = [args EXCEPT !.ock = ZeroKey]
    /\ Altered("ock", 0)
    /\ UNCHANGED <<ne, enc, out>>
    /\ UNCHANGED pairing_vars

\* Encodings of pk_d: the prime-order points, a point outside the prime-order
\* subgroup and bytes that are no point.
ForgedPkd == PrimeOrderPoints \cup {1, GroupOrder + 6}

ForgedEsk == 0..(2 ^ OutBits.esk - 1)

\* The sender seals another outgoing plaintext under its own ock.
ForgeOut ==
    /\ pc = "encrypted"
    /\ \/ \E b \in ForgedPkd :
             out' = seal_to([OutPlaintext(ne) EXCEPT !.pk_d = b], OUT_PLAINTEXT_SIZE,
                            EmptyAd, args.ock, ZeroNonce, OutLayout)
       \/ \E b \in ForgedEsk :
             out' = seal_to([OutPlaintext(ne) EXCEPT !.esk = b], OUT_PLAINTEXT_SIZE,
                            EmptyAd, args.ock, ZeroNonce, OutLayout)
    /\ out' # out
    /\ Altered("out_plaintext", 0)
    /\ UNCHANGED <<ne, enc, args>>
    /\ UNCHANGED pairing_vars

\* The sender swaps another ephemeral key pair into the context, as
\* test_vectors does (ne.esk = esk; ne.epk = epk), and encrypts with it.
InjectEsk ==
    /\ pc = "encrypted"
    /\ \E esk \in Fs \ {ne.esk} :
          LET self == [ne EXCEPT !.esk = esk, !.epk = PointMul(ne.note.g_d, esk)]
          IN  /\ ne' = self
              /\ enc' = encrypt_note_plaintext(self)
              /\ out' = encrypt_outgoing_plaintext(self, args.cv, args.cmu)
              /\ args' = [args EXCEPT !.epk = self.epk,
                                      !.ock = prf_ock(args.ovk, args.cv, args.cmu, self.epk)]
    /\ Altered("esk", 0)
    /\ UNCHANGED pairing_vars

\* A ciphertext of another length is passed.
WrongLength ==
    /\ pc = "encrypted"
    /\ \/ /\ enc' = [enc EXCEPT !.len = @ - 1]
          /\ UNCHANGED <<ne, out, args>>
       \/ /\ out' = [out EXCEPT !.len = @ + 1]
          /\ UNCHANGED <<ne, enc, args>>
       \/ /\ args' = [args EXCEPT !.compact_len = @ - 1]
          /\ UNCHANGED <<ne, enc, out>>
    /\ Altered("length", 0)
    /\ UNCHANGED pairing_vars

\* &enc_ciphertext[..n]
Slice(ct, n) == [len |-> n, body |-> CompactPart(ct.body)]

TrialDecrypt ==
    /\ pc = "ready"
    /\ r_note' = try_sapling_note_decryption(height, args.ivk, args.epk, args.cmu, enc)
    /\ pc' = "note"
    /\ UNCHANGED <<height, ne, enc, out, args, tamper, r_compact, r_ovk, r_ock>>
    /\ UNCHANGED pairing_vars

CompactDecrypt ==
    /\ pc = "note"
    /\ r_compact' = try_sapling_compact_note_decryption(height, args.ivk, args.epk, args.cmu,
                                                        Slice(enc, args.compact_len))
    /\ pc' = "compact"
    /\ UNCHANGED <<height, ne, enc, out, args, tamper, r_note, r_ovk, r_ock>>
    /\ UNCHANGED pairing_vars

RecoverOvk ==
    /\ pc = "compact"
    /\ r_ovk' = try_sapling_output_recovery(height, args.ovk, args.cv, args.cmu, args.epk,
                                            enc, out)
    /\ pc' = "ovk"
    /\ UNCHANGED <<height, ne, enc, out, args, tamper, r_note, r_compact, r_ock>>
    /\ UNCHANGED pairing_vars

RecoverOck ==
    /\ pc = "ovk"
    /\ r_ock' = try_sapling_output_recovery_with_ock(height, args.ock, args.cmu, args.epk,
                                                     enc, out)
    /\ pc' = "done"
    /\ UNCHANGED <<height, ne, enc, out, args, tamper, r_note, r_compact, r_ovk>>
    /\ UNCHANGED pairing_vars

Next ==
    \/ Encrypt
    \/ NoTamper
    \/ FlipEncTag
    \/ FlipOutTag
    \/ FlipEncMemo
    \/ Reencrypt
    \/ WrongIvk
    \/ WrongEpk
    \/ WrongCmu
    \/ WrongOvk
    \/ WrongCv
    \/ WrongOck
    \/ ForgeOut
    \/ InjectEsk
    \/ WrongLength
    \/ TrialDecrypt
    \/ CompactDecrypt
    \/ RecoverOvk
    \/ RecoverOck

Spec == Init /\ [][Next]_vars

(***************************************************************************)
(* SaplingNoteEncryption::new called with a note and an address chosen      *)
(* independently of each other: the constructor takes both and compares     *)
(* neither with the other.  The context encrypts, the output is handed      *)
(* over unaltered to the address `to`, and the four functions are called.   *)
(***************************************************************************)
NewContext ==
    /\ pc = "start"
    /\ \E h \in Heights, ivk \in Fs, d \in ValidDiversifiers,
          to_ivk \in Fs, to_d \in ValidDiversifiers, rseed \in Rseeds, rng \in Fs :
          LET note == create_note(from_parts_unchecked(d, PointMul(g_d(d).val, ivk)),
                                  0, rseed).val
              to == from_parts_unchecked(to_d, PointMul(g_d(to_d).val, to_ivk))
              cmu == Note_cm(note)
              self == SaplingNoteEncryption_new(0, note, to, 0, rng)
              enc_ciphertext == encrypt_note_plaintext(self)
              out_ciphertext == encrypt_outgoing_plaintext(self, HonestCv, cmu)
              ock == prf_ock(0, HonestCv, cmu, self.epk)
              a == [ivk |-> to_ivk, epk |-> self.epk, cmu |-> cmu, ovk |-> 0,
                    cv |-> HonestCv, ock |-> ock, compact_len |-> COMPACT_NOTE_SIZE]
          IN  /\ height' = h
              /\ ne' = self
              /\ enc' = enc_ciphertext
              /\ out' = out_ciphertext
              /\ args' = a
    /\ pc' = "encrypted"
    /\ UNCHANGED <<tamper, r_note, r_compact, r_ovk, r_ock>>
    /\ UNCHANGED pairing_vars

ContextNext ==
    \/ NewContext
    \/ NoTamper
    \/ TrialDecrypt
    \/ CompactDecrypt
    \/ RecoverOvk
    \/ RecoverOck

ContextSpec == Init /\ [][ContextNext]_vars

(***************************************************************************)
(* The pairing engine: a caller makes one call, and possibly a second one  *)
(* related to the first.                                                   *)
(***************************************************************************)
\* The longest list of terms handed to multi_miller_loop.
MaxTerms == 2

G1Points == {G_identity, 1, 2, 5}

G2Points == {G_identity, 1, 3}

Scalars == {0, 1, 2, 3, 1048576, FrModulus - 1}

Fq12Values == {Fq12_zero, Fq12_one, Fq12(1), Fq12(2), Fq12(UnitsCofactor),
               Fq12(FrModulus), Fq12(123457)}

GtValues == {Gt_identity, Fq12(UnitsCofactor), Fq12(2 * UnitsCofactor),
             Fq12(1000003 * UnitsCofactor)}

Terms == {[p |-> p, q |-> G2Prepared_from_affine(q)] : p \in G1Points, q \in G2Points}

IdentityTerms == {t \in Terms : is_identity(t.p) \/ G2Prepared_is_identity(t.q)}

TermLists == UNION {[1..n -> Terms] : n \in 0..MaxTerms}

\* The list with a term inserted after position at.
Inserted(terms, at, term) ==
    SubSeq(terms, 1, at) \o <<term>> \o SubSeq(terms, at + 1, Len(terms))

MillerLoopCall(terms) ==
    [fn |-> "multi_miller_loop", bits |-> BitIterator(BLS_X \div 2), terms |-> terms,
     out |-> multi_miller_loop(terms)]

PairingCall(p, q, a, b) ==
    [fn |-> "pairing", p |-> p, q |-> q, a |-> a, b |-> b,
     out |-> pairing(G_mul(p, a), G_mul(q, b))]

GtMulCall(g, k) == [fn |-> "gt_mul", g |-> g, k |-> k, out |-> Gt_mul(g, k)]

FirstCall(call) ==
    /\ call1' = call
    /\ UNCHANGED call2
    /\ UNCHANGED note_vars

SecondCall(call) ==
    /\ call2.fn = "none"
    /\ call2' = call
    /\ UNCHANGED call1
    /\ UNCHANGED note_vars

\* Bls12::multi_miller_loop(terms)
CallMultiMillerLoop ==
    /\ call1.fn = "none"
    /\ \E terms \in TermLists : FirstCall(MillerLoopCall(terms))

\* multi_miller_loop again, on the terms of the first call with one more
\* term that has the identity on one side.
CallMultiMillerLoopPadded ==
    /\ call1.fn = "multi_miller_loop"
    /\ \E at \in 0..Len(call1.terms), term \in IdentityTerms :
           SecondCall(MillerLoopCall(Inserted(call1.terms, at, term)))

\* MillerLoopResult::final_exponentiation(&f)
CallFinalExponentiation ==
    /\ call1.fn = "none"
    /\ \E f \in Fq12Values :
           FirstCall([fn |-> "final_exponentiation", f |-> f,
                      easy |-> easy_part(f),
                      out |-> final_exponentiation(f)])

\* Bls12::pairing(&p, &q)
CallPairing ==
    /\ call1.fn = "none"
    /\ \E p \in G1Points, q \in G2Points : FirstCall(PairingCall(p, q, 1, 1))

\* Bls12::pairing(&(p * a), &(q * b)) for the p and q of the first call.
CallPairingScaled ==
    /\ call1.fn = "pairing"
    /\ \E a \in Scalars, b \in Scalars :
           SecondCall(PairingCall(call1.p, call1.q, a, b))

\* g * k
CallGtMul ==
    /\ call1.fn = "none"
    /\ \E g \in GtValues, k \in Scalars : FirstCall(GtMulCall(g, k))

\* g * k for the g of the first call and another scalar.
CallGtMulAgain ==
    /\ call1.fn = "gt_mul"
    /\ \E k \in Scalars : SecondCall(GtMulCall(call1.g, k))

PairingNext ==
    \/ CallMultiMillerLoop
    \/ CallMultiMillerLoopPadded
    \/ CallFinalExponentiation
    \/ CallPairing
    \/ CallPairingScaled
    \/ CallGtMul
    \/ CallGtMulAgain

PairingSpec == Init /\ [][PairingNext]_vars

(***************************************************************************)
(* The two loops over the bits of BLS_X >> 1 at the BLS_X of the source:    *)
(* G2Prepared::from_affine, and multi_miller_loop on terms it prepared.     *)
(***************************************************************************)
\* BitIterator::<u64, _>::new(&[BLS_X >> 1])
X_SHR_1 == shr_1(BitIterator_u64(BLS_X_U64))

PreparedTerms == {[p |-> p, q |-> from_affine_x(X_SHR_1, q)] : p \in G1Points, q \in G2Points}

PreparedTermLists == UNION {[1..n -> PreparedTerms] : n \in 0..MaxTerms}

\* G2Prepared::from(q)
CallFromAffine ==
    /\ call1.fn = "none"
    /\ \E q \in G2Points :
           FirstCall([fn |-> "from_affine", bits |-> X_SHR_1, q |-> q,
                      out |-> from_affine_x(X_SHR_1, q)])

\* Bls12::multi_miller_loop(terms)
CallMultiMillerLoopPrepared ==
    /\ call1.fn = "none"
    /\ \E terms \in PreparedTermLists :
           FirstCall([fn |-> "multi_miller_loop", bits |-> X_SHR_1, terms |-> terms,
                      out |-> multi_miller_loop_x(X_SHR_1, terms)])

LoopNext ==
    \/ CallFromAffine
    \/ CallMultiMillerLoopPrepared

LoopSpec == Init /\ [][LoopNext]_vars

(***************************************************************************)
(* Memo: a memo is made from a slice, from a string or by default, and      *)
(* to_utf8 is called on it.                                                 *)
(***************************************************************************)
MaxPrefix == 2

\* Bytes of every kind to_utf8 tells apart: NUL, a letter, the first byte of
\* a two-byte sequence, a continuation byte, the greatest first byte of a
\* sequence, and the two bytes from which a memo is not text.
MemoBytes == {0, 65, 195, 169, 244, 245, 246}

Prefixes == UNION {[1..n -> MemoBytes] : n \in 0..MaxPrefix}

Fillers == {0, 65, 169}

FilledLengths == {MEMO_SIZE - 1, MEMO_SIZE, MEMO_SIZE + 1}

\* prefix followed by the byte filler up to length n.
Filled(prefix, filler, n) ==
    [i \in 1..n |-> IF i <= Len(prefix) THEN prefix[i] ELSE filler]

Slices == Prefixes \cup {Filled(prefix, filler, n) :
                            prefix \in Prefixes, filler \in Fillers, n \in FilledLengths}

\* &str: the slices that are valid UTF-8.
Strings == {s \in Slices : from_utf8_is_ok(s)}

\* Memo::from_bytes(memo)
CallFromBytes ==
    /\ call1.fn = "none"
    /\ \E memo \in Slices :
           FirstCall([fn |-> "from_bytes", memo |-> memo, out |-> Memo_from_bytes(memo)])

\* Memo::from_str(memo)
CallFromStr ==
    /\ call1.fn = "none"
    /\ \E memo \in Strings :
           FirstCall([fn |-> "from_str", memo |-> memo, out |-> Memo_from_str(memo)])

\* Memo::default()
CallDefault ==
    /\ call1.fn = "none"
    /\ FirstCall([fn |-> "default", out |-> Some(Memo_default)])

\* memo.to_utf8() on the memo a slice or the default gave
CallToUtf8 ==
    /\ call1.fn \in {"from_bytes", "default"}
    /\ call1.out.some
    /\ SecondCall([fn |-> "to_utf8", self |-> call1.out.val,
                   out |-> Memo_to_utf8(call1.out.val)])

\* Memo::from_str(s).unwrap().to_utf8()
CallToUtf8OfStr ==
    /\ call1.fn = "from_str"
    /\ call1.out.ok
    /\ SecondCall([fn |-> "to_utf8", self |-> call1.out.val,
                   out |-> Memo_to_utf8(call1.out.val)])

MemoNext ==
    \/ CallFromBytes
    \/ CallFromStr
    \/ CallDefault
    \/ CallToUtf8
    \/ CallToUtf8OfStr

MemoSpec == Init /\ [][MemoNext]_vars

(***************************************************************************)
(* LocalTxProver::with_default_location is called, the parameters are       *)
(* fetched, removed or left as they are, and it is called again.            *)
(***************************************************************************)
FileStates == {"absent", "corrupt", "valid"}

ParamsFolders == {None, Some("ZcashParams")}

\* A file is in a folder that exists.
FileSystems ==
    {fs \in [folder : ParamsFolders, dir : BOOLEAN, spend : FileStates, output : FileStates] :
        /\ ~fs.folder.some => ~fs.dir
        /\ ~fs.dir => (fs.spend = "absent" /\ fs.output = "absent")}

ProverCall(fs) == [fn |-> "with_default_location", fs |-> fs, out |-> with_default_location(fs)]

CallWithDefaultLocation ==
    /\ call1.fn = "none"
    /\ \E fs \in FileSystems : FirstCall(ProverCall(fs))

CallWithDefaultLocationAgain ==
    /\ call1.fn = "with_default_location"
    /\ \E fs \in FileSystems :
           /\ fs.folder = call1.fs.folder
           /\ SecondCall(ProverCall(fs))

ProverNext ==
    \/ CallWithDefaultLocation
    \/ CallWithDefaultLocationAgain

ProverSpec == Init /\ [][ProverNext]_vars

(***************************************************************************)
(* Vocabulary of the properties                                            *)
(***************************************************************************)
Results == <<r_note, r_compact, r_ovk, r_ock>>

AllNone == \A i \in 1..4 : Results[i].res = None

\* The address the note was sent to passes PaymentAddress::from_parts.
AddressValid == from_parts(ne.to.diversifier, ne.to.pk_d).some

\* The Rseed variant is the one generate_random_rseed yields for height.
VariantForHeight == ne.note.rseed.zip212 = is_nu_active_Canopy(height)

\* The lead byte of the plaintext under the tag of enc, when the sender's
\* ciphertext was handed over or re-encrypted with another lead byte.
SentLead == IF tamper.what = "lead" THEN tamper.byte ELSE NotePlaintext(ne).lead

\* The table of the plaintext version policy (ZIP 212).
VersionTable(h, b) ==
    \/ h < CanopyActivationHeight /\ b = 1
    \/ h >= CanopyActivationHeight /\ h < CanopyActivationHeight + ZIP212_GRACE_PERIOD
          /\ b \in {1, 2}
    \/ h >= CanopyActivationHeight /\ h >= CanopyActivationHeight + ZIP212_GRACE_PERIOD
          /\ b = 2

LeadBytes == 0..255

(***************************************************************************)
(* C1: plaintext_version_is_valid(h, b) is true exactly for the lead bytes  *)
(* the version table permits at h, for every byte b and every height h;     *)
(* and when the authentic plaintext carries a lead byte the table forbids   *)
(* at the height of the call, all four decryption functions return None.    *)
(***************************************************************************)
C1_VersionPolicy ==
    /\ pc = "encrypted" =>
          \A b \in LeadBytes : plaintext_version_is_valid(height, b) <=> VersionTable(height, b)
    /\ (pc = "done" /\ tamper.what \in {"none", "lead"}
           /\ ~VersionTable(height, SentLead)) => AllNone

\* A note that would be accepted were its lead byte not 0x03 in the grace period.
C1_Witness ==
    /\ pc = "done"
    /\ tamper = Alteration("lead", 3)
    /\ height = CanopyActivationHeight
    /\ AddressValid
    /\ AllNone
    /\ r_note.trace[Len(r_note.trace)] = "version"
    /\ r_ock.trace[Len(r_ock.trace)] = "version"

(***************************************************************************)
(* C2: round trip.  A note sent to a valid address with the Rseed variant   *)
(* of the height, handed over unaltered, is returned with its address and   *)
(* memo by trial decryption, by recovery with ovk and by recovery with ock. *)
(***************************************************************************)
Sent == Some([note |-> ne.note, to |-> ne.to, memo |-> ne.memo])

C2_RoundTrip ==
    (pc = "done" /\ tamper.what = "none" /\ AddressValid /\ VariantForHeight) =>
        /\ r_note.res = Sent
        /\ r_ovk.res = Sent
        /\ r_ock.res = Sent

C2_Witness ==
    /\ pc = "done"
    /\ tamper.what = "none"
    /\ AddressValid
    /\ VariantForHeight
    /\ ne.note.rseed.zip212
    /\ ne.memo # 0
    /\ r_note.res = Sent
    /\ r_ock.res = Sent

(***************************************************************************)
(* C3: compact equivalence.  Whenever trial decryption of a ciphertext      *)
(* returns Some((note, to, memo)), compact decryption of its first 52 bytes *)
(* with the same height, ivk, epk and cmu returns Some((note, to)).         *)
(***************************************************************************)
C3_CompactEquivalence ==
    (pc \in {"compact", "ovk", "done"} /\ args.compact_len = COMPACT_NOTE_SIZE
        /\ r_note.res.some) =>
        r_compact.res = Some([note |-> r_note.res.val.note, to |-> r_note.res.val.to])

C3_Witness ==
    /\ pc = "done"
    /\ r_note.res.some
    /\ r_compact.res.some
    /\ r_compact.res.val.note = ne.note
    /\ tamper.what = "out_tag"

\* The position of a check in a trace, 0 when it was not evaluated.
Pos(trace, check) ==
    IF \E i \in 1..Len(trace) : trace[i] = check
    THEN CHOOSE i \in 1..Len(trace) : trace[i] = check
    ELSE 0

LastCheck(r) == IF r.trace = <<>> THEN "" ELSE r.trace[Len(r.trace)]

\* A check was evaluated only after the check named before it.
After(trace, first, second) ==
    Pos(trace, second) > 0 => (Pos(trace, first) > 0 /\ Pos(trace, first) < Pos(trace, second))

(***************************************************************************)
(* C4: check ordering.  In trial decryption and in output recovery the      *)
(* checks are evaluated in the order AEAD tag of enc, lead byte, note       *)
(* commitment, derived esk; none is evaluated unless the ones before it     *)
(* were; a Some result has passed the first three and, for a ZIP 212 note,  *)
(* the fourth; a None result stops at the check that failed.                *)
(***************************************************************************)
Ordered(r) ==
    /\ After(r.trace, "enc_tag", "version")
    /\ After(r.trace, "version", "cmu")
    /\ After(r.trace, "cmu", "derived_esk")
    /\ r.res.some =>
          /\ Pos(r.trace, "cmu") > 0
          /\ r.res.val.note.rseed.zip212 => LastCheck(r) = "derived_esk"
          /\ ~r.res.val.note.rseed.zip212 => LastCheck(r) = "cmu"

C5_SingleNegative ==
    tamper.what # "length" =>
        \A i \in 1..4 :
            /\ ~Results[i].res.abort
            /\ Results[i].res.some \/ Results[i].res = None

\* The pk_d of the outgoing plaintext does not decode, while trial decryption succeeds.
C5_Witness ==
    /\ pc = "done"
    /\ tamper.what = "out_plaintext"
    /\ r_note.res.some
    /\ r_ovk.res = None
    /\ r_ock.res = None
    /\ LastCheck(r_ock) = "pk_d"

(***************************************************************************)
(* C6: commitment binding.  Every note a decryption function returns has    *)
(* the commitment passed as cmu; called with a cmu that is not the          *)
(* commitment of the decrypted note, all four functions return None.        *)
(***************************************************************************)
C6_CommitmentBinding ==
    /\ \A i \in 1..4 :
          Results[i].res.some => Note_cm(Results[i].res.val.note) = args.cmu
    /\ (pc = "done" /\ tamper.what = "cmu") => AllNone

\* Every check before the commitment passes, in trial decryption and in
\* recovery with the sender's ock; the ock derived from the other cmu does
\* not open the out ciphertext.
C6_Witness ==
    /\ pc = "done"
    /\ tamper.what = "cmu"
    /\ AllNone
    /\ LastCheck(r_note) = "cmu"
    /\ LastCheck(r_compact) = "cmu"
    /\ LastCheck(r_ovk) = "out_tag"
    /\ LastCheck(r_ock) = "cmu"

(***************************************************************************)
(* C7: tag tampering.  With the last byte of the enc ciphertext changed,    *)
(* trial decryption and both recoveries return None; with the last byte of  *)
(* the out ciphertext changed, both recoveries return None.                 *)
(***************************************************************************)
C7_TagTampering ==
    /\ (pc = "done" /\ tamper.what = "enc_tag") =>
          (r_note.res = None /\ r_ovk.res = None /\ r_ock.res = None)
    /\ (pc = "done" /\ tamper.what = "out_tag") =>
          (r_ovk.res = None /\ r_ock.res = None)

C7_Witness ==
    /\ pc = "done"
    /\ tamper.what = "enc_tag"
    /\ AddressValid
    /\ VariantForHeight
    /\ LastCheck(r_note) = "enc_tag"
    /\ LastCheck(r_ovk) = "enc_tag"
    /\ LastCheck(r_ock) = "enc_tag"
    /\ r_note.res = None

(***************************************************************************)
(* C8: wrong key.  Called with an ivk other than the recipient's, trial     *)
(* and compact decryption return None; called with another ovk or another   *)
(* cv, recovery with ovk returns None; called with another ock, recovery    *)
(* with ock returns None.                                                   *)
(***************************************************************************)
C8_WrongKey ==
    /\ (pc = "done" /\ tamper.what = "ivk") => (r_note.res = None /\ r_compact.res = None)
    /\ (pc = "done" /\ tamper.what \in {"ovk", "cv"}) => r_ovk.res = None
    /\ (pc = "done" /\ tamper.what = "ock") => r_ock.res = None

\* The wrong ivk yields the sender's key (epk is the identity): the tag
\* verifies and the commitment rejects.
C8_Witness ==
    /\ pc = "done"
    /\ tamper.what = "ivk"
    /\ AddressValid
    /\ VariantForHeight
    /\ LastCheck(r_note) = "cmu"
    /\ r_note.res = None
    /\ r_compact.res = None

(***************************************************************************)
(* C9: recovery with ovk returns what recovery with ock returns when ock    *)
(* is prf_ock(ovk, cv, cmu, epk) of the same arguments.                     *)
(***************************************************************************)
C9_OvkDelegates ==
    (pc = "done" /\ args.ock = prf_ock(args.ovk, args.cv, args.cmu, args.epk)) =>
        r_ovk.res = r_ock.res

C9_Witness ==
    /\ pc = "done"
    /\ tamper.what = "none"
    /\ args.ock = prf_ock(args.ovk, args.cv, args.cmu, args.epk)
    /\ r_ovk.res = Sent
    /\ r_ock.res = Sent

(***************************************************************************)
(* C10: ZIP 212 binding of the ephemeral key in trial decryption.  A ZIP    *)
(* 212 note is returned by trial or compact decryption only if the esk      *)
(* derived from it, times g_d, is the epk passed; a ZIP 212 note encrypted  *)
(* under another esk than the derived one is rejected, and so is the        *)
(* sender's ciphertext presented with another epk.                          *)
(***************************************************************************)
EskBound(r) ==
    (r.res.some /\ r.res.val.note.rseed.zip212) =>
        PointMul(r.res.val.note.g_d, derive_esk(r.res.val.note).val) = args.epk

C10_EskBinding ==
    /\ EskBound(r_note)
    /\ EskBound(r_compact)
    /\ (pc = "done" /\ tamper.what = "esk" /\ ne.note.rseed.zip212) =>
          (r_note.res = None /\ r_compact.res = None)
    /\ (pc = "done" /\ tamper.what = "epk") =>
          (r_note.res = None /\ r_compact.res = None)

\* Tag, lead byte and commitment pass; the derived esk does not give epk.
C10_Witness ==
    /\ pc = "done"
    /\ tamper.what = "esk"
    /\ ne.note.rseed.zip212
    /\ AddressValid
    /\ VariantForHeight
    /\ r_note.res = None
    /\ r_compact.res = None
    /\ LastCheck(r_note) = "derived_esk"
    /\ LastCheck(r_compact) = "derived_esk"

\* The esk output recovery reads from the out ciphertext under the ock passed.
RecoveredEsk == Fs_from_repr(open_to(out, EmptyAd, args.ock, ZeroNonce, OutLayout).val.pt.esk).val

(***************************************************************************)
(* C11: output recovery binding.  Recovery with ock returns Some only if    *)
(* the esk of the outgoing plaintext times the g_d of the decrypted         *)
(* diversifier is the epk passed and, for a ZIP 212 note, the esk derived   *)
(* from the note is that esk; called with another epk, or on a ZIP 212 note *)
(* encrypted under another esk than the derived one, both recoveries        *)
(* return None.                                                            *)
(***************************************************************************)
C11_RecoveryBinding ==
    /\ (pc = "done" /\ r_ock.res.some) =>
          /\ PointMul(r_ock.res.val.note.g_d, RecoveredEsk) = args.epk
          /\ r_ock.res.val.note.rseed.zip212 =>
                derive_esk(r_ock.res.val.note).val = RecoveredEsk
    /\ (pc = "done" /\ tamper.what = "epk") => (r_ovk.res = None /\ r_ock.res = None)
    /\ (pc = "done" /\ tamper.what = "esk" /\ ne.note.rseed.zip212) =>
          (r_ovk.res = None /\ r_ock.res = None)

\* Both tags, the epk and the commitment pass; the derived esk is not the
\* esk of the outgoing plaintext.
C11_Witness ==
    /\ pc = "done"
    /\ tamper.what = "esk"
    /\ ne.note.rseed.zip212
    /\ AddressValid
    /\ VariantForHeight
    /\ r_ock.res = None
    /\ LastCheck(r_ock) = "derived_esk"
    /\ LastCheck(r_ovk) = "derived_esk"
    /\ PointMul(ne.note.g_d, RecoveredEsk) = args.epk

SenderKey == kdf_sapling(sapling_ka_agree(ne.esk, ne.to.pk_d), ne.epk)

\* The fields of a layout lie one after the other from byte 0 to byte size.
Tiles(off, width, order, size) ==
    /\ off[order[1]] = 0
    /\ \A i \in 1..(Len(order) - 1) : off[order[i]] + width[order[i]] = off[order[i + 1]]
    /\ off[order[Len(order)]] + width[order[Len(order)]] = size

(***************************************************************************)
(* C13: enc plaintext framing.  encrypt_note_plaintext seals, with nonce 0  *)
(* and empty associated data, a 564-byte plaintext: byte 0 is 0x01 for a    *)
(* BeforeZip212 note and 0x02 for an AfterZip212 note, bytes 1..12 the      *)
(* diversifier, 12..20 the value, 20..52 rcm or rseed, 52..564 the memo;    *)
(* the output has 580 bytes.                                                *)
(***************************************************************************)
C13_EncFraming ==
    pc = "encrypted" =>
        LET opened == open_to(enc, EmptyAd, SenderKey, ZeroNonce, EncLayout)
        IN  /\ enc.len = 580
            /\ enc.tag.nonce = 0
            /\ enc.tag.ad = <<>>
            /\ opened.some
            /\ opened.val.n = 564
            /\ opened.val.pt.lead = (IF ne.note.rseed.zip212 THEN 2 ELSE 1)
            /\ opened.val.pt.d = ne.to.diversifier
            /\ opened.val.pt.v = ne.note.value
            /\ opened.val.pt.r = (IF ne.note.rseed.zip212
                                  THEN ne.note.rseed.r
                                  ELSE Fs_to_repr(ne.note.rseed.r))
            /\ opened.val.pt.memo = ne.memo
            /\ EncOffset = [lead |-> 0, d |-> 1, v |-> 12, r |-> 20, memo |-> 52]
            /\ Tiles(EncOffset, EncWidth, <<"lead", "d", "v", "r", "memo">>, 564)

C13_Witness ==
    /\ pc = "encrypted"
    /\ ne.note.rseed.zip212
    /\ ne.note.rseed.r # 0
    /\ ne.note.value # 0
    /\ ne.memo # 0
    /\ enc.len = 580
    /\ enc.body.lead # 2

(***************************************************************************)
(* C14: out ciphertext.  encrypt_outgoing_plaintext(cv, cmu) seals, with    *)
(* nonce 0 and under prf_ock(ovk, cv, cmu, epk), the 64-byte plaintext      *)
(* pk_d (bytes 0..32) followed by esk (bytes 32..64); the output has 80     *)
(* bytes; the esk written is the one the key of the enc ciphertext was      *)
(* agreed with, also when another key pair was swapped into the context.    *)
(***************************************************************************)
C14_OutCiphertext ==
    (pc = "encrypted" \/ (pc = "ready" /\ tamper.what = "esk")) =>
        LET key == prf_ock(ne.ovk, args.cv, args.cmu, ne.epk)
            op == open_to(out, EmptyAd, key, ZeroNonce, OutLayout)
        IN  /\ out.len = 80
            /\ out.tag.nonce = 0
            /\ out.tag.ad = <<>>
            /\ op.some
            /\ op.val.n = 64
            /\ op.val.pt.pk_d = Point_write(ne.note.pk_d)
            /\ op.val.pt.esk = Fs_to_repr(ne.esk)
            /\ OutOffset = [pk_d |-> 0, esk |-> 32]
            /\ Tiles(OutOffset, OutWidth, <<"pk_d", "esk">>, 64)
            /\ enc.tag.k = kdf_sapling(sapling_ka_agree(Fs_from_repr(op.val.pt.esk).val,
                                                        ne.to.pk_d), ne.epk)

\* A key pair other than the one `new` chose was swapped in before encrypting.
C14_Witness ==
    /\ pc = "ready"
    /\ tamper.what = "esk"
    /\ ne.esk # 0
    /\ AddressValid
    /\ out.len = 80
    /\ out.tag.k = prf_ock(ne.ovk, args.cv, args.cmu, ne.epk)

(***************************************************************************)
(* The pairing engine                                                      *)
(***************************************************************************)
Calls == {call1, call2}

MillerLoopCalls == {c \in Calls : c.fn = "multi_miller_loop"}

\* Every coefficient iterator of a finished call is at its end.
Exhausted(pairs) == \A i \in 1..Len(pairs) : pairs[i].next = Len(pairs[i].coeffs)

\* C15: in every call of multi_miller_loop on terms prepared by
\* G2Prepared::from_affine no coeffs.next().unwrap() aborts, and when the loop
\* returns the iterator of every retained term has given exactly the
\* coefficients from_affine produced.
C15_CoefficientExhaustion ==
    \A c \in MillerLoopCalls :
        /\ c.out.res.some
        /\ ~c.out.res.abort
        /\ Exhausted(c.out.pairs)
        /\ \A i \in 1..Len(c.out.pairs) :
               \E t \in 1..Len(c.terms) :
                   /\ c.out.pairs[i].coeffs = c.terms[t].q.coeffs
                   /\ c.out.pairs[i].p = c.terms[t].p

\* A call with two retained terms has read all the coefficients of both.
C15_Witness ==
    /\ call1.fn = "multi_miller_loop"
    /\ Len(call1.out.pairs) = 2
    /\ call1.out.pairs[1].p # call1.out.pairs[2].p
    /\ call1.out.pairs[1].coeffs # call1.out.pairs[2].coeffs
    /\ call1.out.reads = Len(call1.out.pairs[1].coeffs) + Len(call1.out.pairs[2].coeffs)
    /\ call1.out.reads > 0

\* The product of two scalars in Fr.
Fr_mul(a, b) == MulMod(a % FrModulus, b % FrModulus, FrModulus)

FinalExponentiationCalls == {c \in Calls : c.fn = "final_exponentiation"}

\* (p^6 - 1)(p^2 + 1) modulo UnitsOrder.
EasyPartExponent ==
    MulMod(FROBENIUS_COEFF[6] + UnitsOrder - 1, FROBENIUS_COEFF[2] + 1, UnitsOrder)

\* Three times (p^12 - 1) / r modulo UnitsOrder.
TriplePairingExponent == MulMod(3, PairingExponent, UnitsOrder)

\* C17 as stated: for every nonzero f, final_exponentiation(f) is f raised to
\* (p^12 - 1) / r.
C17_StatedExponent ==
    \A c \in FinalExponentiationCalls :
        ~c.f.zero => c.out = Some(Fq12_pow_vartime(c.f, PairingExponent))

\* C17, amended: for every nonzero f, final_exponentiation(f) is f raised to
\* three times (p^12 - 1) / r: the easy part gives f raised to
\* (p^6 - 1)(p^2 + 1), and the hard part raises that to three times
\* (p^4 - p^2 + 1) / r.
C17_FinalExponent ==
    \A c \in FinalExponentiationCalls :
        ~c.f.zero =>
            /\ c.easy = Some(Fq12_pow_vartime(c.f, EasyPartExponent))
            /\ c.out = Some(Fq12_pow_vartime(c.easy.val, MulMod(3, HardPartExponent, UnitsOrder)))
            /\ c.out = Some(Fq12_pow_vartime(c.f, TriplePairingExponent))

\* final_exponentiation was called on a nonzero f whose power
\* (p^12 - 1) / r is not one, and returned the cube of that power.
C17_Witness ==
    /\ call1.fn = "final_exponentiation"
    /\ ~call1.f.zero
    /\ call1.out.some
    /\ Fq12_pow_vartime(call1.f, PairingExponent) # Fq12_one
    /\ call1.out.val # Fq12_pow_vartime(call1.f, PairingExponent)
    /\ call1.out.val = Fq12_pow_vartime(Fq12_pow_vartime(call1.f, PairingExponent), 3)

\* The term has the identity on one side.
Discarded(term) == is_identity(term.p) \/ G2Prepared_is_identity(term.q)

\* C18: multi_miller_loop returns the same value, from the same pairs and
\* the same number of coefficients read, for a list of terms and for that
\* list with terms added that have the identity of G1 or the identity flag
\* of G2Prepared; a call in which every term is such a term, or with no term,
\* returns Fq12 one and reads no coefficient.
C18_IdentityTermsDiscarded ==
    /\ (call1.fn = "multi_miller_loop" /\ call2.fn = "multi_miller_loop") =>
           /\ call2.out.res = call1.out.res
           /\ call2.out.pairs = call1.out.pairs
           /\ call2.out.reads = call1.out.reads
    /\ \A c \in MillerLoopCalls :
           /\ \A i \in 1..Len(c.out.pairs) :
                  ~is_identity(c.out.pairs[i].p) /\ c.out.pairs[i].coeffs # <<>>
           /\ (\A t \in 1..Len(c.terms) : Discarded(c.terms[t])) =>
                  /\ c.out.res = Some(Fq12_one)
                  /\ c.out.pairs = <<>>
                  /\ c.out.reads = 0

\* The first call had a term that is kept and a term with the identity of
\* G1; the second call had one more term, with the identity flag, and
\* returned the same value, which is not one.
C18_Witness ==
    /\ call1.fn = "multi_miller_loop"
    /\ call2.fn = "multi_miller_loop"
    /\ Len(call1.terms) = 2
    /\ Len(call2.terms) = 3
    /\ Len(call1.out.pairs) = 1
    /\ \E t \in 1..2 : is_identity(call1.terms[t].p) /\ ~G2Prepared_is_identity(call1.terms[t].q)
    /\ \E t \in 1..3 : ~is_identity(call2.terms[t].p) /\ G2Prepared_is_identity(call2.terms[t].q)
    /\ call1.out.res.some
    /\ call1.out.res.val # Fq12_one
    /\ call2.out.res = call1.out.res
    /\ call2.out.reads > 0

GtMulCalls == {c \in Calls : c.fn = "gt_mul"}

\* The number a sequence of bits, most significant first, is the binary
\* notation of.
RECURSIVE BitsValue(_)
BitsValue(bits) ==
    IF bits = <<>> THEN 0
    ELSE 2 * BitsValue(SubSeq(bits, 1, Len(bits) - 1)) + bits[Len(bits)]

\* The number of iterations of the loop of g * k: all the bits of the
\* representation but the first.
GtMulIterations == 8 * FrReprBytes - 1

\* C19: g * k is g combined with itself k times, the identity for k = 0 and
\* g for k = 1; the loop runs over all the bits of the representation of k
\* but the most significant one, from most to least significant, the bit it
\* skips is zero and the bits it processes are the binary notation of k.
C19_GtScalarMul ==
    \A c \in GtMulCalls :
        LET bits == ReprBits(Fr_repr(c.k))
        IN  /\ c.out.val = Fq12_pow_vartime(c.g, c.k)
            /\ c.k = 0 => c.out.val = Gt_identity
            /\ c.k = 1 => c.out.val = c.g
            /\ Len(bits) = GtMulIterations + 1
            /\ bits[1] = 0
            /\ BitsValue(Tail(bits)) = c.k
            /\ Len(c.out.ops) = 3 * GtMulIterations

\* An element other than the identity was multiplied by the largest scalar,
\* which has set bits in every byte of its representation.
C19_Witness ==
    /\ call1.fn = "gt_mul"
    /\ call1.g # Gt_identity
    /\ call1.k = FrModulus - 1
    /\ \A j \in 1..FrReprBytes : Fr_repr(call1.k)[j] # 0
    /\ call1.out.val # Gt_identity
    /\ call1.out.val # call1.g
    /\ Gt_add(call1.out.val, call1.g) = Gt_identity

\* What one iteration of the loop of g * k executes.
GtMulIteration == <<"double", "add", "conditional_select">>

\* C20: every multiplication of an element of Gt by a scalar executes the
\* same sequence of operations, one doubling, one addition and one
\* conditional select for each bit of the representation but the first,
\* whatever the element and the scalar: two multiplications by different
\* scalars execute the same sequence.
C20_ConstantTimeStructure ==
    /\ \A c \in GtMulCalls :
           /\ Len(c.out.ops) = 3 * GtMulIterations
           /\ \A n \in 1..GtMulIterations :
                  SubSeq(c.out.ops, 3 * n - 2, 3 * n) = GtMulIteration
    /\ (call1.fn = "gt_mul" /\ call2.fn = "gt_mul") => call1.out.ops = call2.out.ops

\* The same element was multiplied by zero and by the largest scalar, with
\* different results from the same sequence of operations.
C20_Witness ==
    /\ call1.fn = "gt_mul"
    /\ call2.fn = "gt_mul"
    /\ call1.g = call2.g
    /\ call1.k = 0
    /\ call2.k = FrModulus - 1
    /\ call1.out.val # call2.out.val
    /\ call1.out.ops = call2.out.ops
    /\ Len(call1.out.ops) > 0

(***************************************************************************)
(* C23: diversifier validation.  When the plaintext under the tag of enc    *)
(* was re-encrypted with another diversifier, one that has no g_d or a      *)
(* valid one that is not the diversifier of the note, trial decryption,     *)
(* compact decryption and both output recoveries return None; for a note    *)
(* sent to a valid address with the Rseed variant of the height, a          *)
(* diversifier without g_d stops all four at the g_d check, and a valid     *)
(* one stops them at the epk or the commitment check.                       *)
(***************************************************************************)
C23_DiversifierValidation ==
    (pc = "done" /\ tamper.what = "d") =>
        /\ tamper.byte # ne.to.diversifier
        /\ AllNone
        /\ (AddressValid /\ VariantForHeight) =>
              \A i \in 1..4 :
                  IF g_d(tamper.byte).some
                  THEN LastCheck(Results[i]) \in {"epk", "cmu"}
                  ELSE LastCheck(Results[i]) = "g_d"

\* A diversifier with no g_d was written into the plaintext of a note that
\* is otherwise acceptable.
C23_Witness ==
    /\ pc = "done"
    /\ tamper.what = "d"
    /\ ~g_d(tamper.byte).some
    /\ AddressValid
    /\ VariantForHeight
    /\ AllNone
    /\ LastCheck(r_note) = "g_d"
    /\ LastCheck(r_compact) = "g_d"
    /\ LastCheck(r_ovk) = "g_d"
    /\ LastCheck(r_ock) = "g_d"

\* A recovery opened both ciphertexts: it went past the tag of out and the
\* tag of enc.
Authenticated(r) ==
    /\ Pos(r.trace, "out_tag") > 0
    /\ Pos(r.trace, "enc_tag") > 0
    /\ LastCheck(r) \notin {"out_tag", "pk_d", "esk", "enc_tag"}

(***************************************************************************)
(* C24: invalid pk_d in output recovery.  When the note was encrypted to   *)
(* an address built without validation whose pk_d is the identity (from    *)
(* ivk = 0) and the two ciphertexts are handed over as the encryption       *)
(* produced them, recovery with ovk and recovery with ock return None       *)
(* although both ciphertexts authenticate; with the Rseed variant of the    *)
(* height the check that returns is PaymentAddress::from_parts.             *)
(***************************************************************************)
C24_InvalidPkdRecovery ==
    (pc = "done" /\ tamper.what = "none" /\ ne.to.pk_d = PointZero) =>
        /\ args.ivk = 0
        /\ r_ovk.res = None
        /\ r_ock.res = None
        /\ Authenticated(r_ovk)
        /\ Authenticated(r_ock)
        /\ VariantForHeight =>
              /\ LastCheck(r_ovk) = "from_parts"
              /\ LastCheck(r_ock) = "from_parts"

\* The library's own ciphertexts for an address with pk_d = 0 * g_d, refused
\* by both recoveries at from_parts after every earlier check passed.
C24_Witness ==
    /\ pc = "done"
    /\ tamper.what = "none"
    /\ ne.to.pk_d = PointZero
    /\ ne.to.pk_d = PointMul(ne.note.g_d, 0)
    /\ VariantForHeight
    /\ r_ovk.res = None
    /\ r_ock.res = None
    /\ Authenticated(r_ock)
    /\ LastCheck(r_ovk) = "from_parts"
    /\ LastCheck(r_ock) = "from_parts"

\* The note of the context is a note of the address the context encrypts to.
NoteOfAddress ==
    /\ ne.note.pk_d = ne.to.pk_d
    /\ g_d(ne.to.diversifier) = Some(ne.note.g_d)

\* The plaintext of out, as the context sealed it.
SealedOut == open_to(out, EmptyAd, prf_ock(ne.ovk, HonestCv, Note_cm(ne.note), ne.epk),
                     ZeroNonce, OutLayout).val.pt

\* The key of enc, as encrypt_note_plaintext agreed it.
SealedEncKey == kdf_sapling(sapling_ka_agree(ne.esk, ne.to.pk_d), ne.epk)

\* The plaintext of enc, as the context sealed it.
SealedEnc == open_to(enc, EmptyAd, SealedEncKey, ZeroNonce, EncLayout).val.pt

(***************************************************************************)
(* C25 as stated: for every context created by SaplingNoteEncryption::new, *)
(* epk = esk * note.g_d, the pk_d written into the plaintext of out is the  *)
(* pk_d the key of enc was agreed with, and the diversifier written into    *)
(* the plaintext of enc is the one whose g_d produced epk.                  *)
(***************************************************************************)
C25_CiphertextConsistency ==
    pc = "encrypted" =>
        /\ ne.epk = PointMul(ne.note.g_d, ne.esk)
        /\ SealedOut.pk_d = Point_write(ne.to.pk_d)
        /\ g_d(SealedEnc.d).some
        /\ PointMul(g_d(SealedEnc.d).val, ne.esk) = ne.epk

\* A context made of a note of one valid address and another valid address:
\* out carries the pk_d of the note, the key of enc was agreed with the pk_d
\* of the address, and recovery with the sender's own ock, of the unaltered
\* output, fails at the tag of enc.
C25_Witness ==
    /\ pc = "done"
    /\ tamper.what = "none"
    /\ ~NoteOfAddress
    /\ ne.note.pk_d # PointZero
    /\ AddressValid
    /\ SealedOut.pk_d # Point_write(ne.to.pk_d)
    /\ r_ock.res = None
    /\ LastCheck(r_ock) = "enc_tag"

\* The first height after the ZIP 212 grace period.
GracePeriodEnd == CanopyActivationHeight + ZIP212_GRACE_PERIOD

InGracePeriod == is_nu_active_Canopy(height) /\ height < GracePeriodEnd

(***************************************************************************)
(* C29: the Rseed variant of an accepted note follows the height.  A note   *)
(* returned by any of the four functions is BeforeZip212 when Canopy is     *)
(* not active and AfterZip212 from the end of the grace period on; a        *)
(* BeforeZip212 note is returned with no derived-esk check; a note          *)
(* encrypted with AfterZip212 is never returned before Canopy, one          *)
(* encrypted with BeforeZip212 never after the grace period; and a          *)
(* plaintext with lead byte 0x01 whose rcm bytes are not a canonical Fs     *)
(* encoding is rejected with None.                                          *)
(***************************************************************************)
C29_RseedFollowsHeight ==
    pc = "done" =>
        \A i \in 1..4 :
            LET r == Results[i]
            IN  /\ r.res.some =>
                      /\ ~is_nu_active_Canopy(height) => ~r.res.val.note.rseed.zip212
                      /\ height >= GracePeriodEnd => r.res.val.note.rseed.zip212
                      /\ ~r.res.val.note.rseed.zip212 => Pos(r.trace, "derived_esk") = 0
                /\ (ne.note.rseed.zip212 /\ ~is_nu_active_Canopy(height)) => ~r.res.some
                /\ (~ne.note.rseed.zip212 /\ height >= GracePeriodEnd) => ~r.res.some
                /\ (tamper.what = "r" /\ SentLead = 1 /\ ~Fs_from_repr(tamper.byte).some) =>
                      r.res = None

\* Inside the grace period a plaintext with lead byte 0x01 is accepted as a
\* BeforeZip212 note, the commitment being the last check.
C29_Witness ==
    /\ pc = "done"
    /\ InGracePeriod
    /\ SentLead = 1
    /\ \A i \in 1..4 :
          /\ Results[i].res.some
          /\ ~Results[i].res.val.note.rseed.zip212
          /\ LastCheck(Results[i]) = "cmu"

\* What compact decryption returns for the note that was sent.
SentCompact == Some([note |-> ne.note, to |-> ne.to])

(***************************************************************************)
(* C30: compact decryption does not authenticate.  For a note sent to a     *)
(* valid address with the Rseed variant of the height, whose enc            *)
(* ciphertext had its tag or a byte at offset >= 52 altered, trial          *)
(* decryption returns None at the tag while compact decryption of the       *)
(* first 52 bytes returns the note; and whenever compact decryption         *)
(* returns a note, the commitment of that note is cmu and, for a ZIP 212    *)
(* note, its derived esk times g_d is epk.                                  *)
(***************************************************************************)
C30_CompactUnauthenticated ==
    /\ (pc = "done" /\ tamper.what \in {"enc_tag", "enc_memo"}
           /\ AddressValid /\ VariantForHeight) =>
          /\ Slice(enc, COMPACT_NOTE_SIZE) = Slice(encrypt_note_plaintext(ne), COMPACT_NOTE_SIZE)
          /\ r_note.res = None
          /\ LastCheck(r_note) = "enc_tag"
          /\ r_compact.res = SentCompact
    /\ (pc \in {"compact", "ovk", "done"} /\ r_compact.res.some) =>
          LET note == r_compact.res.val.note
          IN  /\ Note_cm(note) = args.cmu
              /\ note.rseed.zip212 =>
                    PointMul(note.g_d, derive_esk(note).val) = args.epk

\* A ZIP 212 note whose encrypted memo was altered: refused by trial
\* decryption, returned by compact decryption.
C30_Witness ==
    /\ pc = "done"
    /\ tamper.what = "enc_memo"
    /\ enc # encrypt_note_plaintext(ne)
    /\ AddressValid
    /\ VariantForHeight
    /\ ne.note.rseed.zip212
    /\ r_note.res = None
    /\ r_compact.res = SentCompact
    /\ LastCheck(r_compact) = "derived_esk"

FromAffineCalls == {c \in Calls : c.fn = "from_affine"}

\* The positions of a sequence of coefficients that hold a given step.
Steps(coeffs, step) == {k \in 1..Len(coeffs) : coeffs[k].step = step}

\* The bits of the iterator below its most significant set bit.
BelowTop(bits) ==
    LET top == CHOOSE n \in 1..Len(bits) : bits[n] /\ \A m \in 1..(n - 1) : ~bits[m]
    IN  [n \in 1..(Len(bits) - top) |-> bits[top + n]]

\* The number of set bits among the first j of a sequence of bits.
Ones(bits, j) == Cardinality({m \in 1..j : bits[m]})

(***************************************************************************)
(* C27: coefficient count.  For every G2 point that is not the identity,    *)
(* from_affine produces exactly 68 coefficient triples with infinity =      *)
(* false: one doubling for each of the 62 bits of BLS_X >> 1 below its      *)
(* most significant set bit, one addition right after the doubling of each  *)
(* of the 5 such bits that are set, and one final doubling pushed last;     *)
(* for the identity it produces no coefficients with infinity = true.       *)
(***************************************************************************)
C27_CoefficientCount ==
    \A c \in FromAffineCalls :
        LET coeffs == c.out.coeffs
            below == BelowTop(c.bits)
        IN  IF is_identity(c.q)
            THEN c.out = [coeffs |-> <<>>, infinity |-> TRUE]
            ELSE /\ c.out.infinity = FALSE
                 /\ Len(coeffs) = 68
                 /\ Len(below) = 62
                 /\ Ones(below, Len(below)) = 5
                 /\ Cardinality(Steps(coeffs, "doubling")) = 62 + 1
                 /\ Cardinality(Steps(coeffs, "addition")) = 5
                 /\ coeffs[68].step = "doubling"
                 /\ \A j \in 1..Len(below) :
                        /\ coeffs[j + Ones(below, j - 1)].step = "doubling"
                        /\ below[j] => coeffs[j + Ones(below, j - 1) + 1].step = "addition"
                        /\ ~below[j] => coeffs[j + Ones(below, j - 1) + 1].step = "doubling"

\* A point that is not the identity was prepared: 68 coefficients, the
\* second an addition (the bit below the most significant one is set).
C27_Witness ==
    /\ call1.fn = "from_affine"
    /\ ~is_identity(call1.q)
    /\ Len(call1.out.coeffs) = 68
    /\ call1.out.coeffs[2].step = "addition"
    /\ call1.out.coeffs[1].at = call1.q
    /\ ~call1.out.infinity

\* The calls of multi_miller_loop that returned a value.
ReturnedMillerLoopCalls == {c \in MillerLoopCalls : c.out.res.some}

\* The number of operations multi_miller_loop has executed when the
\* iteration of bit j begins, for n retained terms.
ScheduleStart(bits, n, j) == n * ((j - 1) + Ones(bits, j - 1)) + (j - 1)

\* The ell of pair i that consumes coefficient k, called from a loop.
EllOp(i, k, slot) == [op |-> "ell", pair |-> i, k |-> k, slot |-> slot]

\* The positions before s at which pair i consumed a coefficient.
Consumed(ops, i, s) == {m \in 1..(s - 1) : ops[m].op = "ell" /\ ops[m].pair = i}

(***************************************************************************)
(* C28: schedule and lockstep of the Miller loop.  For each bit of          *)
(* BLS_X >> 1 below its most significant set bit, multi_miller_loop applies *)
(* one coefficient of every retained term, then a second one of every       *)
(* retained term if the bit is set, and only then squares f once; after     *)
(* the last bit it applies one final coefficient per term, with no squaring *)
(* after it, and conjugates f once, last.  At every squaring all retained   *)
(* terms have consumed the same number of coefficients, and the k-th        *)
(* coefficient a term gave is the k-th that from_affine pushed: doubling    *)
(* steps are consumed by the first and the final loop, addition steps by    *)
(* the loop of a set bit.                                                   *)
(***************************************************************************)
C28_MillerSchedule ==
    \A c \in ReturnedMillerLoopCalls :
        LET bits == BelowTop(c.bits)
            L == Len(bits)
            n == Len(c.out.pairs)
            ops == c.out.ops
            end == ScheduleStart(bits, n, L + 1)
        IN  /\ Len(ops) = end + n + 1
            /\ \A j \in 1..L :
                   LET start == ScheduleStart(bits, n, j)
                       k == j + Ones(bits, j - 1)
                   IN  /\ \A i \in 1..n : ops[start + i] = EllOp(i, k, "doubling")
                       /\ bits[j] =>
                              \A i \in 1..n : ops[start + n + i] = EllOp(i, k + 1, "addition")
                       /\ ops[ScheduleStart(bits, n, j + 1)] = [op |-> "square"]
            /\ \A i \in 1..n : ops[end + i] = EllOp(i, L + Ones(bits, L) + 1, "doubling")
            /\ ops[end + n + 1] = [op |-> "conjugate"]
            /\ Cardinality({m \in 1..Len(ops) : ops[m].op = "square"}) = L
            /\ Cardinality({m \in 1..Len(ops) : ops[m].op = "conjugate"}) = 1
            /\ \A s \in 1..Len(ops) :
                   ops[s].op = "square" =>
                       \A i \in 1..n :
                           Cardinality(Consumed(ops, i, s)) = Cardinality(Consumed(ops, 1, s))
            /\ \A m \in 1..Len(ops) :
                   ops[m].op = "ell" =>
                       /\ ops[m].k = Cardinality(Consumed(ops, ops[m].pair, m)) + 1
                       /\ c.out.pairs[ops[m].pair].coeffs[ops[m].k].step = ops[m].slot

\* Two retained terms at the BLS_X of the source: 62 squarings, 68
\* coefficients consumed from each term, the conjugation last.
C28_Witness ==
    /\ call1.fn = "multi_miller_loop"
    /\ call1.bits = X_SHR_1
    /\ Len(call1.terms) = 2
    /\ Len(call1.out.pairs) = 2
    /\ call1.out.res.some
    /\ Cardinality({m \in 1..Len(call1.out.ops) : call1.out.ops[m].op = "square"}) = 62
    /\ Cardinality(Consumed(call1.out.ops, 2, Len(call1.out.ops))) = 68
    /\ call1.out.ops[Len(call1.out.ops)] = [op |-> "conjugate"]
    /\ call1.out.ops[Len(call1.out.ops) - 1].op = "ell"

FromBytesCalls == {c \in Calls : c.fn = "from_bytes"}

FromStrCalls == {c \in Calls : c.fn = "from_str"}

\* memo holds the slice b in its first bytes and zero in all the others.
RightPadded(memo, b) ==
    /\ Len(memo) = MEMO_SIZE
    /\ \A i \in 1..MEMO_SIZE : memo[i] = IF i <= Len(b) THEN b[i] ELSE 0

(***************************************************************************)
(* C21 as stated: for every slice b of at most 512 bytes from_bytes(b)      *)
(* returns a memo whose first len(b) bytes are b and whose other bytes are  *)
(* all zero; for every longer slice it returns None, and from_str Err.      *)
(***************************************************************************)
C21_RightPads ==
    /\ \A c \in FromBytesCalls :
           IF Len(c.memo) <= 512
           THEN c.out.some /\ RightPadded(c.out.val, c.memo)
           ELSE c.out = None
    /\ \A c \in FromStrCalls :
           IF Len(c.memo) <= 512
           THEN c.out.ok /\ RightPadded(c.out.val, c.memo)
           ELSE c.out = Err

(***************************************************************************)
(* C21, amended: for every slice b of at least 1 and at most 512 bytes      *)
(* from_bytes(b) returns a memo whose first len(b) bytes are b and whose    *)
(* other bytes are all zero; for the empty slice it returns Memo::default() *)
(* (0xF6 followed by 511 zero bytes); for every slice longer than 512       *)
(* bytes it returns None, and from_str returns Err.                         *)
(***************************************************************************)
C21_RightPadsNonEmpty ==
    /\ \A c \in FromBytesCalls :
           IF c.memo = <<>>
           THEN c.out.some /\ RightPadded(c.out.val, <<246>>)
           ELSE IF Len(c.memo) <= 512
           THEN c.out.some /\ RightPadded(c.out.val, c.memo)
           ELSE c.out = None
    /\ \A c \in FromStrCalls :
           IF c.memo = <<>>
           THEN c.out.ok /\ RightPadded(c.out.val, <<246>>)
           ELSE IF Len(c.memo) <= 512
           THEN c.out.ok /\ RightPadded(c.out.val, c.memo)
           ELSE c.out = Err

\* A slice of 511 bytes that ends in a byte other than zero became a memo
\* with one byte of padding.
C21_Witness ==
    /\ call1.fn = "from_bytes"
    /\ Len(call1.memo) = 511
    /\ call1.memo[511] # 0
    /\ call1.out.some
    /\ call1.out.val[511] = call1.memo[511]
    /\ call1.out.val[512] = 0

ToUtf8Calls == {c \in Calls : c.fn = "to_utf8"}

\* The string s followed by zero bytes only makes up v.
ZeroPadded(v, s) ==
    /\ Len(s) <= Len(v)
    /\ \A i \in 1..Len(v) : v[i] = IF i <= Len(s) THEN s[i] ELSE 0

(***************************************************************************)
(* C22: classification by to_utf8.  to_utf8 returns None exactly when the   *)
(* first byte of the memo is >= 0xF5, so for Memo::default(); when it is    *)
(* < 0xF5 it returns Some(Ok(s)), s being the memo without its trailing     *)
(* zero bytes, if the 512 bytes are valid UTF-8, and Some(Err) otherwise.   *)
(* Hence for every non-empty string s of at most 512 bytes that does not    *)
(* end in NUL, Memo::from_str(s).to_utf8() is Some(Ok(s)).                  *)
(***************************************************************************)
C22_ToUtf8Classification ==
    /\ \A c \in ToUtf8Calls :
           /\ c.out = None <=> c.self[1] >= 245
           /\ c.self[1] < 245 =>
                  IF from_utf8_is_ok(c.self)
                  THEN /\ c.out.some /\ c.out.val.ok
                       /\ ZeroPadded(c.self, c.out.val.val)
                       /\ c.out.val.val # <<>> => c.out.val.val[Len(c.out.val.val)] # 0
                  ELSE c.out = Some(Err)
    /\ (call1.fn = "default" /\ call2.fn = "to_utf8") => call2.out = None
    /\ (call1.fn = "from_str" /\ call2.fn = "to_utf8" /\ call1.memo # <<>>
           /\ Len(call1.memo) <= 512 /\ call1.memo[Len(call1.memo)] # 0) =>
          call2.out = Some(Ok(call1.memo))

\* A string of 512 bytes that begins with a two-byte character came back
\* from to_utf8 as it was given to from_str.
C22_Witness ==
    /\ call1.fn = "from_str"
    /\ call2.fn = "to_utf8"
    /\ Len(call1.memo) = 512
    /\ call1.memo[1] = 195
    /\ call1.memo[512] # 0
    /\ call2.out = Some(Ok(call1.memo))

ProverCalls == {c \in Calls : c.fn = "with_default_location"}

\* The call went as far as load_parameters.
LoadAttempted(c) == \E i \in 1..Len(c.out.trace) : c.out.trace[i] = "load_parameters"

\* The default folder is determined and exists, and holds both files.
ParamsPresent(fs) ==
    /\ fs.folder.some
    /\ fs.dir
    /\ fs.spend # "absent"
    /\ fs.output # "absent"

(***************************************************************************)
(* C26: LocalTxProver::with_default_location returns None, without          *)
(* attempting to load anything, when the default parameters folder cannot   *)
(* be determined, does not exist, or lacks the spend or the output          *)
(* parameter file; it attempts to load only when the folder and both files  *)
(* exist, and then returns a prover, or panics when a file has not the      *)
(* expected hash.                                                           *)
(***************************************************************************)
C26_DefaultLocation ==
    \A c \in ProverCalls :
        IF ParamsPresent(c.fs)
        THEN /\ LoadAttempted(c)
             /\ c.out.res # None
             /\ c.out.res = Abort <=> (c.fs.spend = "corrupt" \/ c.fs.output = "corrupt")
        ELSE /\ c.out.res = None
             /\ ~LoadAttempted(c)

\* The folder held the spend parameters only and the call returned None
\* without loading; the output parameters were fetched, corrupt, and the
\* second call panicked in load_parameters.
C26_Witness ==
    /\ call1.fn = "with_default_location"
    /\ call2.fn = "with_default_location"
    /\ call1.fs.dir
    /\ call1.fs.spend = "valid"
    /\ call1.fs.output = "absent"
    /\ call1.out.res = None
    /\ ~LoadAttempted(call1)
    /\ call2.fs.output = "corrupt"
    /\ LoadAttempted(call2)
    /\ call2.out.res = Abort

====
